---- MODULE Spec2Model ----
(***************************************************************************)
(* Gmail monitoring system: the extraction-and-dispatch pipeline of        *)
(* src/email_processor.py (EnhancedGmailProcessor, EmailDatabase).         *)
(*                                                                         *)
(* Confidences are integers in percent (0.3 is 30).  A mean confidence is  *)
(* kept exact as the pair [num, den] = [sum of confidences, field count],  *)
(* [0, 1] standing for the literal 0.0 of an empty field set.              *)
(***************************************************************************)
EXTENDS Integers, Sequences, FiniteSets, TLC

(* ------------------------------ bounds -------------------------------- *)
NumIds == 2        \* message ids present in the mailbox
MaxRuns == 2       \* process_emails runs started in one behaviour
MaxCalls == 3      \* direct calls made in the call-level specifications

Ids == 1..NumIds

(* --------------------------- program constants ------------------------ *)
max_tries == 3                 \* @backoff.on_exception(..., max_tries=3)
relevance_threshold == 30      \* is_relevant = confidence >= 0.3
max_score == 100               \* max_score = 100.0
min_field_count == 2           \* len(extracted_fields) >= 2
negative_penalty == 10         \* relevance_score -= 10
success_statuses == {200, 201, 202, 204}
key_fields == {"name", "email", "phone", "inquiry_text"}

(* A part of the keyword tables of check_data_relevance, with its weights. *)
high_value_keywords == [name |-> 12, email |-> 12, form |-> 18, property |-> 15]
medium_value_keywords == [price |-> 8, info |-> 4]
negative_keywords == {"spam", "newsletter", "unsubscribe"}

(* ------------------------------ helpers ------------------------------- *)
Min(a, b) == IF a <= b THEN a ELSE b

\* extracted_fields is a dict keyed by field name: a set of
\* [name, confidence] records with pairwise different names.
NoFields == {}
Names(fields) == {f.name : f \in fields}

\* sum(confidences)
RECURSIVE SumConfidences(_)
SumConfidences(fields) ==
    IF fields = {} THEN 0
    ELSE LET f == CHOOSE g \in fields : TRUE
         IN  f.confidence + SumConfidences(fields \ {f})

\* sum(confidences) / len(confidences), or the literal 0.0
MeanConfidence(fields) ==
    IF fields # {} THEN [num |-> SumConfidences(fields), den |-> Cardinality(fields)]
    ELSE [num |-> 0, den |-> 1]

\* avg_confidence >= t for a threshold t in percent
MeanAtLeast(mean, t) == mean.num >= t * mean.den

(* --------------------- messages and their contents -------------------- *)
\* What the pipeline reads of one fetched message: the keywords its text
\* contains, the fields extract_universal_json_data finds in it, and
\* whether a header is malformed (a null subject makes .lower() raise).
Field(n, c) == [name |-> n, confidence |-> c]

Content(kw, fs, bad) == [keywords |-> kw, fields |-> fs, malformed |-> bad]

Newsletter   == Content({"newsletter", "unsubscribe"}, NoFields, FALSE)
FormNoFields == Content({"form", "property"}, NoFields, FALSE)
FormOneField == Content({"form", "property", "price"}, {Field("price", 90)}, FALSE)
FormLowConf  == Content({"form", "property"},
                        {Field("furigana", 50), Field("price", 80)}, FALSE)
FormTwoField == Content({"form", "property", "price"},
                        {Field("price", 90), Field("url", 95)}, FALSE)
FormKeyField == Content({"form", "email", "info"}, {Field("email", 95)}, FALSE)
AdWithEmail  == Content({"spam", "email"}, {Field("email", 95)}, FALSE)
Malformed    == Content({"form", "name"}, {Field("name", 90)}, TRUE)

AllContents == {Newsletter, FormNoFields, FormOneField, FormLowConf,
                FormTwoField, FormKeyField, AdWithEmail, Malformed}
\* the contents the mailbox of the pipeline specification is drawn from
MailContents == {AdWithEmail, FormOneField, FormKeyField, Malformed}

\* a message that has not been fetched yet: its content is not known
Unread == Content({}, NoFields, FALSE)

email_data_of(id, content) ==
    [id |-> id, keywords |-> content.keywords, fields |-> content.fields,
     malformed |-> content.malformed]

(* ------------------------- check_data_relevance ----------------------- *)
KeywordScore(k) ==
    IF k \in DOMAIN high_value_keywords THEN high_value_keywords[k]
    ELSE IF k \in DOMAIN medium_value_keywords THEN medium_value_keywords[k]
    ELSE 0 - negative_penalty

RECURSIVE relevance_score(_)
relevance_score(keywords) ==
    IF keywords = {} THEN 0
    ELSE LET k == CHOOSE x \in keywords : TRUE
         IN  KeywordScore(k) + relevance_score(keywords \ {k})

\* confidence = min(1.0, relevance_score / max_score), in percent
relevance_confidence(keywords) ==
    Min(100, (relevance_score(keywords) * 100) \div max_score)

\* a plausible slip: the raw score, not the normalized confidence, is
\* compared with the threshold 0.3
check_data_relevance_raw_score(email_data) ==
    LET confidence == relevance_confidence(email_data.keywords)
    IN  [is_relevant |->
             relevance_score(email_data.keywords) * 100 >= relevance_threshold,
         confidence |-> confidence]

check_data_relevance(email_data) ==
    LET confidence == relevance_confidence(email_data.keywords)
    IN  [is_relevant |-> confidence >= relevance_threshold,
         confidence |-> confidence]

(* ---------------------------- send_to_webhook ------------------------- *)
\* What one requests.post does: a response with a status code, or a
\* requests exception (code 0).
Response(code) == [kind |-> "response", code |-> code]
Timeout == [kind |-> "Timeout", code |-> 0]
ConnectionError == [kind |-> "ConnectionError", code |-> 0]
IsException(o) == o.kind # "response"

AllPostOutcomes == {Response(c) : c \in {200, 201, 202, 203, 204, 206, 301, 404, 500}}
                     \cup {Timeout, ConnectionError}
PostOutcomes == {Response(200), Response(203), Response(500), Timeout}

\* The decorated function body: one call.  posted says whether an HTTP
\* request was issued, raised whether an exception left the body.
send_to_webhook_body(url_configured, outcome) ==
    IF ~url_configured
    THEN [ret |-> FALSE, raised |-> FALSE, posted |-> FALSE]
    ELSE IF IsException(outcome)
         \* except Exception as e: ... return False
         THEN [ret |-> FALSE, raised |-> FALSE, posted |-> TRUE]
         ELSE [ret |-> outcome.code \in success_statuses,
               raised |-> FALSE, posted |-> TRUE]

\* backoff.on_exception(backoff.expo, RequestException, max_tries=3):
\* call the body again while it raises and tries remain.  outcomes[k] is
\* what the k-th POST would meet.
RECURSIVE backoff_retry(_, _, _, _)
backoff_retry(url_configured, outcomes, k, posts) ==
    LET r == send_to_webhook_body(url_configured, outcomes[k])
        n == posts + (IF r.posted THEN 1 ELSE 0)
    IN  IF r.raised /\ k < max_tries
        THEN backoff_retry(url_configured, outcomes, k + 1, n)
        ELSE [ret |-> r.ret, raised |-> r.raised, posts |-> n]

send_to_webhook(url_configured, outcomes) ==
    backoff_retry(url_configured, outcomes, 1, 0)

(* ------------------------------ archive_email ------------------------- *)
\* modify_ok: whether the Gmail modify call succeeds.
archive_email(archive_flag, modify_ok) ==
    IF ~archive_flag THEN [ret |-> TRUE, called |-> FALSE]
    ELSE [ret |-> modify_ok, called |-> TRUE]

(* --------------------------- ProcessingResult ------------------------- *)
EmptyDict == [filled |-> FALSE, id |-> 0, mapped |-> {}]

ProcessingResult(id) ==
    [success |-> FALSE, email_id |-> id, extracted_fields |-> NoFields,
     universal_data |-> EmptyDict, webhook_sent |-> FALSE,
     archived |-> FALSE, error_message |-> ""]

\* the canonical record: the template filled for this message
extract_universal_json_data(email_data) ==
    [universal_data |-> [filled |-> TRUE, id |-> email_data.id,
                         mapped |-> Names(email_data.fields)],
     extracted_fields |-> email_data.fields]

(* -------------------------- process_single_email --------------------- *)
\* The outcome of one pipeline pass over email_data, with what the pass
\* did on the way: scored/extracted (the stages it ran), posts (HTTP POSTs
\* issued), archive_called (Gmail modify issued), archive_ok (it succeeded).
Pass(result, scored, extracted, posts, archive_called, archive_ok) ==
    [result |-> result, scored |-> scored, extracted |-> extracted,
     posts |-> posts, archive_called |-> archive_called,
     archive_ok |-> archive_ok]

\* a plausible slip: "or" where the code has "and", so that a delivery
\* needs both meaningful data and a key field
is_meaningful_needs_both(extracted_fields, threshold) ==
    LET avg_confidence == MeanConfidence(extracted_fields)
        has_meaningful_data ==
            /\ MeanAtLeast(avg_confidence, threshold)
            /\ Cardinality(extracted_fields) >= min_field_count
        has_key_field == \E f \in key_fields : f \in Names(extracted_fields)
    IN  ~(~has_meaningful_data \/ ~has_key_field)

\* the negation of "not has_meaningful_data and not has_key_field"
is_meaningful(extracted_fields, threshold) ==
    LET avg_confidence == MeanConfidence(extracted_fields)
        has_meaningful_data ==
            /\ MeanAtLeast(avg_confidence, threshold)
            /\ Cardinality(extracted_fields) >= min_field_count
        has_key_field == \E f \in key_fields : f \in Names(extracted_fields)
    IN  ~(~has_meaningful_data /\ ~has_key_field)

\* a plausible slip: send_to_webhook is called whether or not an endpoint
\* is configured, and its answer is taken
dispatch_always_send(url_configured, outcomes) ==
    LET sent == send_to_webhook(url_configured, outcomes)
    IN  [webhook_sent |-> sent.ret, raised |-> sent.raised, posts |-> sent.posts]

\* "Send to webhook if configured": the call when there is an endpoint,
\* success without a call when there is none.
dispatch(url_configured, outcomes) ==
    LET sent == send_to_webhook(url_configured, outcomes)
    IN  IF url_configured
        THEN [webhook_sent |-> sent.ret, raised |-> sent.raised,
              posts |-> sent.posts]
        \* Consider success if no webhook needed
        ELSE [webhook_sent |-> TRUE, raised |-> FALSE, posts |-> 0]

\* a plausible slip: the "result.webhook_sent and" of the condition is
\* missing, so that the message is archived whatever the delivery gave
archive_if_sent_ungated(webhook_sent, archive_flag, modify_ok) ==
    LET arch == archive_email(archive_flag, modify_ok)
    IN  [archived |-> arch.ret, called |-> arch.called,
         ok |-> arch.called /\ arch.ret]

\* "if result.webhook_sent and self.archive_email(email_id):
\*      result.archived = True"; archive_email is only evaluated when
\* webhook_sent is true.
archive_if_sent(webhook_sent, archive_flag, modify_ok) ==
    LET arch == archive_email(archive_flag, modify_ok)
    IN  [archived |-> webhook_sent /\ arch.ret,
         called |-> webhook_sent /\ arch.called,
         ok |-> webhook_sent /\ arch.called /\ arch.ret]

process_single_email(email_data, url_configured, archive_flag, threshold, outcomes, modify_ok) ==
    LET result == ProcessingResult(email_data.id)
        rel == check_data_relevance(email_data)
        ext == extract_universal_json_data(email_data)
        d == dispatch(url_configured, outcomes)
        arch == archive_if_sent(d.webhook_sent, archive_flag, modify_ok)
    IN  IF email_data.malformed
        \* except Exception as e: result.error_message = str(e)
        THEN Pass([result EXCEPT !.error_message = "exception"],
                  TRUE, FALSE, 0, FALSE, FALSE)
        ELSE IF ~rel.is_relevant
        THEN Pass([result EXCEPT !.success = TRUE,
                                 !.error_message = "Low relevance"],
                  TRUE, FALSE, 0, FALSE, FALSE)
        ELSE IF ~is_meaningful(ext.extracted_fields, threshold)
        THEN Pass([result EXCEPT !.success = TRUE,
                                 !.universal_data = ext.universal_data,
                                 !.extracted_fields = ext.extracted_fields,
                                 !.error_message = "Insufficient data quality"],
                  TRUE, TRUE, 0, FALSE, FALSE)
        ELSE IF d.raised
        \* an exception leaving send_to_webhook reaches the except clause
        THEN Pass([result EXCEPT !.error_message = "exception"],
                  TRUE, TRUE, d.posts, FALSE, FALSE)
        ELSE Pass([result EXCEPT !.success = TRUE,
                                 !.webhook_sent = d.webhook_sent,
                                 !.archived = arch.archived,
                                 !.universal_data = ext.universal_data,
                                 !.extracted_fields = ext.extracted_fields],
                  TRUE, TRUE, d.posts, arch.called, arch.ok)

(* ------------------------------ EmailDatabase ------------------------- *)
\* The tables, each the sequence of its rows in insertion order:
\* processed_emails (one row per stored outcome), extracted_fields (the
\* per-field detail rows) and processing_stats (one row per date).
EmptyDb == [processed_emails |-> <<>>, extracted_fields |-> <<>>,
            processing_stats |-> <<>>]

\* hashlib.md5(json.dumps(universal_data)): distinct records have distinct
\* digests (collisions of md5 are not modelled).
content_hash(universal_data) == <<"md5", universal_data>>

\* result.error_message or None
error_or_none(error_message) ==
    IF error_message = "" THEN "NULL" ELSE error_message

\* the rows of processed_emails with this email_id
rows_of(db, email_id) ==
    {i \in 1..Len(db.processed_emails) :
        db.processed_emails[i].email_id = email_id}

\* a plausible slip: the query matches no row (it compares the wrong column)
is_email_processed_no_match(db, email_id, db_ok) == FALSE

\* SELECT 1 FROM processed_emails WHERE email_id = ?; False when the
\* query raises.
is_email_processed(db, email_id, db_ok) ==
    IF db_ok THEN rows_of(db, email_id) # {} ELSE FALSE

\* the row mark_email_processed stores for the result; the archived column
\* is not in the INSERT and takes its default
ledger_row(result) ==
    [email_id |-> result.email_id,
     webhook_sent |-> result.webhook_sent,
     archived |-> FALSE,
     extraction_confidence |-> MeanConfidence(result.extracted_fields),
     field_count |-> Cardinality(result.extracted_fields),
     error_message |-> error_or_none(result.error_message),
     content_hash |-> content_hash(result.universal_data)]

\* INSERT OR REPLACE INTO processed_emails: the rows that conflict on the
\* UNIQUE email_id are deleted, then the row is inserted.
RECURSIVE delete_email_id(_, _)
delete_email_id(table, email_id) ==
    IF table = <<>> THEN <<>>
    ELSE IF Head(table).email_id = email_id
         THEN delete_email_id(Tail(table), email_id)
         ELSE <<Head(table)>> \o delete_email_id(Tail(table), email_id)

\* a plausible slip: INSERT OR IGNORE keeps the row already stored
insert_or_ignore(table, row) ==
    IF \E i \in 1..Len(table) : table[i].email_id = row.email_id
    THEN table
    ELSE Append(table, row)

insert_or_replace(table, row) ==
    Append(delete_email_id(table, row.email_id), row)

\* the rows "for field_name, field_data in result.extracted_fields.items()"
\* inserts, in the order of the dict; any order of a set stands for it.
RECURSIVE field_rows(_, _)
field_rows(email_id, fields) ==
    IF fields = {} THEN <<>>
    ELSE LET f == CHOOSE g \in fields : TRUE
         IN  <<[email_id |-> email_id, field_name |-> f.name,
                confidence |-> f.confidence]>>
             \o field_rows(email_id, fields \ {f})

\* INSERT INTO extracted_fields for each field
insert_extracted_fields(table, email_id, fields) ==
    table \o field_rows(email_id, fields)

\* a plausible slip: outcomes of failed passes are not stored
mark_only_successful(db, result, db_ok) ==
    IF ~db_ok \/ ~result.success THEN db
    ELSE [db EXCEPT
            !.processed_emails =
                insert_or_replace(db.processed_emails, ledger_row(result)),
            !.extracted_fields =
                insert_extracted_fields(db.extracted_fields, result.email_id,
                                        result.extracted_fields)]

\* The database after mark_email_processed(result); an exception (db_ok
\* false) is logged and leaves the database as it was.
mark_email_processed(db, result, db_ok) ==
    IF ~db_ok THEN db
    ELSE [db EXCEPT
            !.processed_emails =
                insert_or_replace(db.processed_emails, ledger_row(result)),
            !.extracted_fields =
                insert_extracted_fields(db.extracted_fields, result.email_id,
                                        result.extracted_fields)]

\* get_stats: the counts over processed_emails and field_extraction_stats,
\* the number of extracted_fields rows per field name.
field_rows_named(table, name) ==
    Cardinality({i \in 1..Len(table) : table[i].field_name = name})

\* datetime.now().strftime('%Y-%m-%d'): the behaviours modelled take
\* place within one calendar day
today == "today"

\* SELECT * FROM processing_stats WHERE date = today; fetchone()
today_stats(table) ==
    {i \in 1..Len(table) : table[i].date = today}

get_stats(db) ==
    [total_processed |-> Len(db.processed_emails),
     today_processed |->
         IF today_stats(db.processing_stats) = {} THEN 0
         ELSE db.processing_stats[
                  CHOOSE i \in today_stats(db.processing_stats) : TRUE
              ].emails_processed,
     today_successful |->
         IF today_stats(db.processing_stats) = {} THEN 0
         ELSE db.processing_stats[
                  CHOOSE i \in today_stats(db.processing_stats) : TRUE
              ].webhooks_successful,
     today_failed |->
         IF today_stats(db.processing_stats) = {} THEN 0
         ELSE db.processing_stats[
                  CHOOSE i \in today_stats(db.processing_stats) : TRUE
              ].webhooks_failed,
     successful_webhooks |->
         Cardinality({i \in 1..Len(db.processed_emails) :
                        db.processed_emails[i].webhook_sent}),
     failed_webhooks |->
         Cardinality({i \in 1..Len(db.processed_emails) :
                        ~db.processed_emails[i].webhook_sent}),
     field_extraction_stats |->
         [n \in {db.extracted_fields[i].field_name :
                   i \in 1..Len(db.extracted_fields)} |->
             field_rows_named(db.extracted_fields, n)]]

(* ================================ state =============================== *)
\* Threads that can be inside process_emails: the processing loop (or the
\* command-line run) and a request thread serving a one-time run.
Runners == {"loop", "request"}

VARIABLES
    \* configuration read by EnhancedGmailProcessor.__init__
    webhook_url,               \* TRUE when an endpoint is configured
    max_emails,
    archive_processed,
    min_confidence_threshold,  \* in percent
    parallel_processing,
    \* the mailbox (Gmail) and the SQLite store
    mail,                      \* content of each message, once fetched
    inbox,                     \* ids carrying the INBOX label
    db,                        \* the tables of EmailDatabase
    db_faults,                 \* TRUE when database calls may raise
    \* process_emails, per thread
    pc, messages, idx, unprocessed_messages, emails, results, result, summary,
    run,                       \* number of the run the thread is in
    \* history
    runs,                      \* runs started so far
    posts,                     \* HTTP POSTs issued per message id
    acked,                     \* run in which a POST for the id first succeeded
    archive_calls,             \* Gmail modify calls issued per message id
    handed,                    \* ids ever handed to process_single_email
    work,                      \* per thread: what the current run did, by id
    last_pass,                 \* per thread: the latest pipeline pass
    last_marked,               \* per id: the latest result handed to the ledger
    reported,                  \* summaries returned for batches, with whether
                               \* a ledger write of the batch had failed
    \* EmailProcessorService (src/app.py)
    is_running, is_paused, should_stop,
    processing_thread,         \* "none", "alive", "ended" or "killed"
    handler,                   \* signal_handler: "none", "join" or "exited"
    in_flight_at_stop,         \* id in the pipeline when stop was requested
    \* EmailDatabase, inside its methods
    lock_owner, lock_depth,    \* _connection_lock (an RLock)
    connection_pool,           \* threads that have a connection
    ledger_op,                 \* per thread: the method called, its argument
    ledger_pc,                 \* per thread: where it is in the method
    txn,                       \* per thread: its uncommitted transaction
    \* EmailProcessorService, statement by statement
    loop_pc,                   \* per loop thread: where it is in the loop
    request,                   \* per request thread: the method it is in
    \* call-level specifications
    calls, call

config_vars == <<webhook_url, max_emails, archive_processed,
                 min_confidence_threshold, parallel_processing, db_faults>>
runner_vars == <<pc, messages, idx, unprocessed_messages, emails, results,
                 result, summary, run>>
history_vars == <<runs, posts, acked, archive_calls, handed, work, last_pass,
                  last_marked>>
service_vars == <<is_running, is_paused, should_stop, processing_thread,
                  handler, in_flight_at_stop>>
lock_vars == <<lock_owner, lock_depth, connection_pool, ledger_op, ledger_pc,
               txn>>
control_vars == <<loop_pc, request>>
call_vars == <<calls, call>>
vars == <<config_vars, mail, inbox, db, runner_vars, history_vars, reported,
          service_vars, control_vars, lock_vars, call_vars>>

NoWork == [skipped |-> {}, fetched |-> {}, fetch_failed |-> {}, scored |-> {},
           extracted |-> {}, posted |-> {}, written |-> {}, unwritten |-> {}]
NoResult == ProcessingResult(0)
NoPass == Pass(NoResult, FALSE, FALSE, 0, FALSE, FALSE)
NoSummary == [processed |-> 0, successful_webhooks |-> 0, failed_webhooks |-> 0,
              archived |-> 0, error |-> FALSE, returned |-> FALSE]
NoCall == [op |-> "none"]

\* outcomes a database call can have
DbOutcomes == IF db_faults THEN BOOLEAN ELSE {TRUE}

InitRunners ==
    /\ pc = [r \in Runners |-> "idle"]
    /\ messages = [r \in Runners |-> <<>>]
    /\ idx = [r \in Runners |-> 0]
    /\ unprocessed_messages = [r \in Runners |-> <<>>]
    /\ emails = [r \in Runners |-> <<>>]
    /\ results = [r \in Runners |-> <<>>]
    /\ result = [r \in Runners |-> NoResult]
    /\ summary = [r \in Runners |-> NoSummary]
    /\ run = [r \in Runners |-> 0]

InitHistory ==
    /\ runs = 0
    /\ posts = [m \in Ids |-> 0]
    /\ acked = [m \in Ids |-> 0]
    /\ archive_calls = [m \in Ids |-> 0]
    /\ handed = {}
    /\ work = [r \in Runners |-> NoWork]
    /\ last_pass = [r \in Runners |-> NoPass]
    /\ last_marked = [m \in Ids |-> NoResult]
    /\ reported = {}

\* EmailDatabase.__init__: the lock is free, the pool is empty
NoLedgerOp == [op |-> "none"]
NoTxn == [open |-> FALSE, image |-> EmptyDb]

InitLock ==
    /\ lock_owner = "none"
    /\ lock_depth = 0
    /\ connection_pool = {}
    /\ ledger_op = [t \in Runners |-> NoLedgerOp]
    /\ ledger_pc = [t \in Runners |-> "out"]
    /\ txn = [t \in Runners |-> NoTxn]

\* threads the service can create, and the request threads of the server
MaxThreads == 2
Threads == 1..MaxThreads
Handlers == {"h1", "h2"}

NoRequest == [op |-> "none", pc |-> "done", stopped |-> FALSE,
              routed |-> "none", ret |-> FALSE]

\* no loop thread has been created, no request is being served
InitControl ==
    /\ loop_pc = [t \in Threads |-> "unborn"]
    /\ request = [h \in Handlers |-> NoRequest]

\* EmailProcessorService.__init__: no processing thread yet
InitService ==
    /\ is_running = FALSE
    /\ is_paused = FALSE
    /\ should_stop = FALSE
    /\ processing_thread = "none"
    /\ handler = "none"
    /\ in_flight_at_stop = 0

\* EnhancedGmailProcessor.__init__ and EmailDatabase.__init__: the
\* configuration is read, the tables are created empty.
Init ==
    /\ webhook_url \in BOOLEAN
    /\ max_emails \in {1, 2}
    /\ archive_processed \in BOOLEAN
    /\ min_confidence_threshold = 30
    /\ parallel_processing \in BOOLEAN
    /\ db_faults = FALSE
    /\ mail = [m \in Ids |-> Unread]
    /\ inbox = Ids
    /\ db = EmptyDb
    /\ InitRunners
    /\ InitHistory
    /\ InitService
    /\ InitLock
    /\ InitControl
    /\ calls = 0
    /\ call = NoCall

(* ============================ process_emails ========================== *)
\* users().messages().list(labelIds=['INBOX'], maxResults=max_emails * 3):
\* the ids in the inbox, newest (highest) first.
RECURSIVE Descending(_)
Descending(S) ==
    IF S = {} THEN <<>>
    ELSE LET m == CHOOSE x \in S : \A y \in S : y <= x
         IN  <<m>> \o Descending(S \ {m})

list_messages(box, max_results) ==
    LET all == Descending(box)
    IN  SubSeq(all, 1, Min(Len(all), max_results))

\* the summary returned when there is nothing to process
zero_summary == [NoSummary EXCEPT !.returned = TRUE]
\* the summary of the "Critical error in process_emails" branch
error_summary == [NoSummary EXCEPT !.returned = TRUE, !.error = TRUE]

\* sum(1 for r in results if r.webhook_sent)
count_webhook_sent(rs) == Cardinality({i \in 1..Len(rs) : rs[i].webhook_sent})
\* sum(1 for r in results if r.archived)
count_archived(rs) == Cardinality({i \in 1..Len(rs) : rs[i].archived})

batch_summary(rs) ==
    LET processed_count == Len(rs)
        successful_webhooks == count_webhook_sent(rs)
    IN  [processed |-> processed_count,
         successful_webhooks |-> successful_webhooks,
         failed_webhooks |-> processed_count - successful_webhooks,
         archived |-> count_archived(rs),
         error |-> FALSE, returned |-> TRUE]

\* the methods class EmailDatabase defines
EmailDatabase_methods ==
    {"get_connection", "init_database", "is_email_processed",
     "mark_email_processed", "get_stats", "cleanup_old_connections"}

\* get_latest_emails returned new_emails: process them, or return the zero
\* summary when there are none.
EndOfFetch(r, new_emails) ==
    /\ emails' = [emails EXCEPT ![r] = new_emails]
    /\ IF new_emails = <<>>
       THEN /\ pc' = [pc EXCEPT ![r] = "idle"]
            /\ summary' = [summary EXCEPT ![r] = zero_summary]
       ELSE /\ pc' = [pc EXCEPT ![r] = "process"]
            /\ UNCHANGED summary

\* process_emails is entered: list the candidates.  list_ok is false when
\* authentication or the list call fails (get_latest_emails returns []).
StartRun(r) ==
    /\ pc[r] = "idle"
    /\ runs < MaxRuns
    /\ \E list_ok \in BOOLEAN :
         LET listing == IF list_ok THEN list_messages(inbox, max_emails * 3)
                        ELSE <<>>
         IN  /\ messages' = [messages EXCEPT ![r] = listing]
             /\ IF listing = <<>>
                THEN /\ pc' = [pc EXCEPT ![r] = "idle"]
                     /\ summary' = [summary EXCEPT ![r] = zero_summary]
                ELSE /\ pc' = [pc EXCEPT ![r] =
                                 IF parallel_processing THEN "filter" ELSE "scan"]
                     /\ summary' = [summary EXCEPT ![r] = NoSummary]
    /\ idx' = [idx EXCEPT ![r] = 1]
    /\ unprocessed_messages' = [unprocessed_messages EXCEPT ![r] = <<>>]
    /\ emails' = [emails EXCEPT ![r] = <<>>]
    /\ results' = [results EXCEPT ![r] = <<>>]
    /\ result' = [result EXCEPT ![r] = NoResult]
    /\ runs' = runs + 1
    /\ run' = [run EXCEPT ![r] = runs + 1]
    /\ work' = [work EXCEPT ![r] = NoWork]
    /\ last_pass' = [last_pass EXCEPT ![r] = NoPass]
    /\ UNCHANGED <<config_vars, control_vars, lock_vars, service_vars, reported, mail, inbox, db, posts, acked, archive_calls,
                   handed, last_marked, call_vars>>

\* messages().get(id, format='full'): the content of the message, the
\* same at every fetch
ContentsOf(email_id) ==
    IF mail[email_id] = Unread THEN MailContents ELSE {mail[email_id]}

\* a plausible slip: the "continue" of the already-processed branch is
\* missing, so the message is fetched all the same
SeqScanBody_no_continue(r, email_id, processed, fetch_ok, content) ==
    LET new_emails ==
            IF fetch_ok
            THEN Append(emails[r], email_data_of(email_id, content))
            ELSE emails[r]
        stop == (fetch_ok /\ Len(new_emails) >= max_emails)
                  \/ idx[r] >= Len(messages[r])
    IN  /\ work' = [work EXCEPT
                      ![r].skipped = IF processed THEN @ \cup {email_id} ELSE @,
                      ![r].fetched = @ \cup {email_id},
                      ![r].fetch_failed =
                          IF fetch_ok THEN @ ELSE @ \cup {email_id}]
        /\ mail' = IF fetch_ok THEN [mail EXCEPT ![email_id] = content] ELSE mail
        /\ idx' = [idx EXCEPT ![r] = IF stop THEN 1 ELSE @ + 1]
        /\ IF stop
           THEN EndOfFetch(r, new_emails)
           ELSE /\ emails' = [emails EXCEPT ![r] = new_emails]
                /\ UNCHANGED <<pc, summary>>

\* a plausible slip: the try/except around the fetch is missing, so a
\* failing fetch ends get_latest_emails with its outer "return []"
SeqScanBody_fetch_fatal(r, email_id, processed, fetch_ok, content) ==
    IF processed
    THEN /\ work' = [work EXCEPT ![r].skipped = @ \cup {email_id}]
         /\ UNCHANGED mail
         /\ idx' = [idx EXCEPT ![r] = IF idx[r] < Len(messages[r]) THEN @ + 1 ELSE 1]
         /\ IF idx[r] < Len(messages[r])
            THEN UNCHANGED <<pc, emails, summary>>
            ELSE EndOfFetch(r, emails[r])
    ELSE LET new_emails ==
                 IF fetch_ok
                 THEN Append(emails[r], email_data_of(email_id, content))
                 ELSE <<>>
             stop == ~fetch_ok \/ Len(new_emails) >= max_emails
                       \/ idx[r] >= Len(messages[r])
         IN  /\ work' = [work EXCEPT
                           ![r].fetched = @ \cup {email_id},
                           ![r].fetch_failed =
                               IF fetch_ok THEN @ ELSE @ \cup {email_id}]
             /\ mail' = IF fetch_ok THEN [mail EXCEPT ![email_id] = content]
                        ELSE mail
             /\ idx' = [idx EXCEPT ![r] = IF stop THEN 1 ELSE @ + 1]
             /\ IF stop
                THEN EndOfFetch(r, new_emails)
                ELSE /\ emails' = [emails EXCEPT ![r] = new_emails]
                     /\ UNCHANGED <<pc, summary>>

\* _process_emails_sequential: one iteration of "for message in messages".
\* fetch_ok is false when messages().get or extract_email_data fails.
SeqScanBody(r, email_id, processed, fetch_ok, content) ==
    IF processed
    THEN \* processed_count += 1; continue
         /\ work' = [work EXCEPT ![r].skipped = @ \cup {email_id}]
         /\ UNCHANGED mail
         /\ idx' = [idx EXCEPT ![r] = IF idx[r] < Len(messages[r]) THEN @ + 1 ELSE 1]
         /\ IF idx[r] < Len(messages[r])
            THEN UNCHANGED <<pc, emails, summary>>
            ELSE EndOfFetch(r, emails[r])
    ELSE LET new_emails ==
                 IF fetch_ok
                 THEN Append(emails[r], email_data_of(email_id, content))
                 ELSE emails[r]
             stop == (fetch_ok /\ Len(new_emails) >= max_emails)
                       \/ idx[r] >= Len(messages[r])
         IN  /\ work' = [work EXCEPT
                           ![r].fetched = @ \cup {email_id},
                           ![r].fetch_failed =
                               IF fetch_ok THEN @ ELSE @ \cup {email_id}]
             /\ mail' = IF fetch_ok THEN [mail EXCEPT ![email_id] = content]
                        ELSE mail
             /\ idx' = [idx EXCEPT ![r] = IF stop THEN 1 ELSE @ + 1]
             /\ IF stop
                THEN EndOfFetch(r, new_emails)
                ELSE /\ emails' = [emails EXCEPT ![r] = new_emails]
                     /\ UNCHANGED <<pc, summary>>

SeqScan(r) ==
    /\ pc[r] = "scan"
    /\ \E db_ok \in DbOutcomes, fetch_ok \in BOOLEAN,
          content \in ContentsOf(messages[r][idx[r]]) :
         SeqScanBody(r, messages[r][idx[r]],
                     is_email_processed(db, messages[r][idx[r]], db_ok),
                     fetch_ok, content)
    /\ UNCHANGED <<config_vars, control_vars, lock_vars, service_vars, reported, inbox, db, messages, unprocessed_messages,
                   results, result, run, runs, posts, acked, archive_calls,
                   handed, last_pass, last_marked, call_vars>>

\* _process_emails_parallel: one iteration of the filter loop.
ParFilterBody(r, email_id, processed) ==
    LET pending == IF processed THEN unprocessed_messages[r]
                   ELSE Append(unprocessed_messages[r], email_id)
        stop == (~processed /\ Len(pending) >= max_emails)
                  \/ idx[r] >= Len(messages[r])
    IN  /\ unprocessed_messages' = [unprocessed_messages EXCEPT ![r] = pending]
        /\ work' = [work EXCEPT ![r].skipped =
                       IF processed THEN @ \cup {email_id} ELSE @]
        /\ idx' = [idx EXCEPT ![r] = IF stop THEN 1 ELSE @ + 1]
        /\ IF stop /\ pending = <<>>
           THEN EndOfFetch(r, <<>>)
           ELSE /\ pc' = [pc EXCEPT ![r] = IF stop THEN "fetch" ELSE @]
                /\ UNCHANGED <<emails, summary>>

ParFilter(r) ==
    /\ pc[r] = "filter"
    /\ \E db_ok \in DbOutcomes :
         ParFilterBody(r, messages[r][idx[r]],
                       is_email_processed(db, messages[r][idx[r]], db_ok))
    /\ UNCHANGED <<config_vars, control_vars, lock_vars, service_vars, reported, mail, inbox, db, messages, results, result,
                   run, runs, posts, acked, archive_calls, handed, last_pass,
                   last_marked, call_vars>>

\* _process_emails_parallel: one future of the pool completes
\* (as_completed yields them in any order); _fetch_single_email returned
\* the email data, or None when fetch_ok is false.
ParFetch(r) ==
    /\ pc[r] = "fetch"
    /\ \E i \in 1..Len(unprocessed_messages[r]), fetch_ok \in BOOLEAN :
        \E content \in ContentsOf(unprocessed_messages[r][i]) :
         LET email_id == unprocessed_messages[r][i]
             rest == SubSeq(unprocessed_messages[r], 1, i - 1)
                       \o SubSeq(unprocessed_messages[r], i + 1,
                                 Len(unprocessed_messages[r]))
             new_emails ==
                 IF fetch_ok
                 THEN Append(emails[r], email_data_of(email_id, content))
                 ELSE emails[r]
         IN  /\ unprocessed_messages' = [unprocessed_messages EXCEPT ![r] = rest]
             /\ work' = [work EXCEPT
                           ![r].fetched = @ \cup {email_id},
                           ![r].fetch_failed =
                               IF fetch_ok THEN @ ELSE @ \cup {email_id}]
             /\ mail' = IF fetch_ok THEN [mail EXCEPT ![email_id] = content]
                        ELSE mail
             /\ IF rest = <<>>
                THEN EndOfFetch(r, new_emails)
                ELSE /\ emails' = [emails EXCEPT ![r] = new_emails]
                     /\ UNCHANGED <<pc, summary>>
    /\ UNCHANGED <<config_vars, control_vars, lock_vars, service_vars, reported, inbox, db, messages, idx, results, result,
                   run, runs, posts, acked, archive_calls, handed, last_pass,
                   last_marked, call_vars>>

\* The answers of the webhook endpoint a pass can meet: every sequence of
\* max_tries answers when the pass reaches send_to_webhook with an endpoint
\* configured, and one arbitrary sequence when it never asks.
AllSucceed == [k \in 1..max_tries |-> Response(200)]
AllFail == [k \in 1..max_tries |-> Response(500)]

AskedOutcomes(email_data, url_configured, archive_flag, threshold, answers) ==
    IF url_configured
         /\ process_single_email(email_data, url_configured, archive_flag,
                                 threshold, AllSucceed, TRUE).posts > 0
    THEN [1..max_tries -> answers]
    ELSE {AllSucceed}

\* "result = self.process_single_email(email_data)" for the next email of
\* the batch.  outcomes and modify_ok are what the webhook endpoint and the
\* Gmail modify call would answer.
ProcessNext(r) ==
    /\ pc[r] = "process"
    /\ \E outcomes \in AskedOutcomes(emails[r][idx[r]], webhook_url,
                                     archive_processed,
                                     min_confidence_threshold, PostOutcomes),
          modify_ok \in BOOLEAN :
         LET email_data == emails[r][idx[r]]
             m == email_data.id
             p == process_single_email(email_data, webhook_url,
                                       archive_processed,
                                       min_confidence_threshold,
                                       outcomes, modify_ok)
         IN  /\ result' = [result EXCEPT ![r] = p.result]
             /\ last_pass' = [last_pass EXCEPT ![r] = p]
             /\ posts' = [posts EXCEPT ![m] = @ + p.posts]
             /\ acked' = [acked EXCEPT ![m] =
                            IF @ = 0 /\ p.posts > 0 /\ p.result.webhook_sent
                            THEN run[r] ELSE @]
             /\ archive_calls' = [archive_calls EXCEPT ![m] =
                                    @ + (IF p.archive_called THEN 1 ELSE 0)]
             \* removeLabelIds: ['INBOX']
             /\ inbox' = IF p.archive_ok THEN inbox \ {m} ELSE inbox
             /\ handed' = handed \cup {m}
             /\ work' = [work EXCEPT
                           ![r].scored = IF p.scored THEN @ \cup {m} ELSE @,
                           ![r].extracted = IF p.extracted THEN @ \cup {m} ELSE @,
                           ![r].posted = IF p.posts > 0 THEN @ \cup {m} ELSE @]
    /\ pc' = [pc EXCEPT ![r] = "mark"]
    /\ UNCHANGED <<config_vars, control_vars, lock_vars, service_vars, reported, mail, db, messages, idx, unprocessed_messages,
                   emails, results, summary, run, runs, last_marked, call_vars>>

\* a plausible slip: the outcome of a pass that raised ends the loop over
\* the batch, as if the exception had left process_single_email
MarkStep_abort_on_error(r) ==
    /\ pc[r] = "mark"
    /\ \E db_ok \in DbOutcomes :
         /\ db' = mark_email_processed(db, result[r], db_ok)
         /\ work' = [work EXCEPT
                       ![r].written = @ \cup {result[r].email_id},
                       ![r].unwritten =
                           IF db_ok THEN @ ELSE @ \cup {result[r].email_id}]
    /\ results' = [results EXCEPT ![r] = Append(@, result[r])]
    /\ last_marked' = [last_marked EXCEPT ![result[r].email_id] = result[r]]
    /\ IF idx[r] < Len(emails[r]) /\ result[r].success
       THEN /\ idx' = [idx EXCEPT ![r] = @ + 1]
            /\ pc' = [pc EXCEPT ![r] = "process"]
       ELSE /\ idx' = [idx EXCEPT ![r] = 1]
            /\ pc' = [pc EXCEPT ![r] = "stats"]
    /\ UNCHANGED <<config_vars, control_vars, lock_vars, service_vars, reported, mail, inbox, messages, unprocessed_messages,
                   emails, result, summary, run, runs, posts, acked,
                   archive_calls, handed, last_pass, call_vars>>

\* "self.db.mark_email_processed(result); results.append(result)"
MarkStep(r) ==
    /\ pc[r] = "mark"
    /\ \E db_ok \in DbOutcomes :
         /\ db' = mark_email_processed(db, result[r], db_ok)
         /\ work' = [work EXCEPT
                       ![r].written = @ \cup {result[r].email_id},
                       ![r].unwritten =
                           IF db_ok THEN @ ELSE @ \cup {result[r].email_id}]
    /\ results' = [results EXCEPT ![r] = Append(@, result[r])]
    /\ last_marked' = [last_marked EXCEPT ![result[r].email_id] = result[r]]
    /\ IF idx[r] < Len(emails[r])
       THEN /\ idx' = [idx EXCEPT ![r] = @ + 1]
            /\ pc' = [pc EXCEPT ![r] = "process"]
       ELSE /\ idx' = [idx EXCEPT ![r] = 1]
            /\ pc' = [pc EXCEPT ![r] = "stats"]
    /\ UNCHANGED <<config_vars, control_vars, lock_vars, service_vars, reported, mail, inbox, messages, unprocessed_messages,
                   emails, result, summary, run, runs, posts, acked,
                   archive_calls, handed, last_pass, call_vars>>

\* After the loop: the metrics, self.db.update_daily_stats(...), and the
\* summary.  Calling a method the database class does not define raises
\* AttributeError, which the outer except turns into the error summary;
\* no statement of the class writes processing_stats.
Finish(r) ==
    /\ pc[r] = "stats"
    /\ summary' = [summary EXCEPT ![r] =
                     IF "update_daily_stats" \in EmailDatabase_methods
                     THEN batch_summary(results[r])
                     ELSE error_summary]
    /\ reported' = reported \cup {[summary |-> summary'[r],
                                     write_failed |-> work[r].unwritten # {}]}
    /\ pc' = [pc EXCEPT ![r] = "idle"]
    /\ UNCHANGED <<config_vars, control_vars, lock_vars, service_vars, mail, inbox, db, messages, idx,
                   unprocessed_messages, emails, results, result, run,
                   history_vars, call_vars>>

\* process_emails, by the thread r
ProcessEmails(r) ==
    \/ StartRun(r)
    \/ SeqScan(r)
    \/ ParFilter(r)
    \/ ParFetch(r)
    \/ ProcessNext(r)
    \/ MarkStep(r)
    \/ Finish(r)

\* Runs of process_emails one after the other, on one thread.
Next == ProcessEmails("loop")

Spec == Init /\ [][Next]_vars

(* ===================== batches on a failing store ===================== *)
\* The SQLite calls of is_email_processed and mark_email_processed may
\* raise (a locked or unwritable database file).
InitFaulty ==
    /\ webhook_url = TRUE
    /\ max_emails = 1
    /\ archive_processed = FALSE
    /\ min_confidence_threshold = 30
    /\ parallel_processing = FALSE
    /\ db_faults = TRUE
    /\ mail = [m \in Ids |-> Unread]
    /\ inbox = Ids
    /\ db = EmptyDb
    /\ InitRunners
    /\ InitHistory
    /\ InitService
    /\ InitLock
    /\ InitControl
    /\ calls = 0
    /\ call = NoCall

\* process_emails with the sequential fetch path
NextFaulty ==
    \/ StartRun("loop")
    \/ SeqScan("loop")
    \/ ProcessNext("loop")
    \/ MarkStep("loop")
    \/ Finish("loop")

SpecFaulty == InitFaulty /\ [][NextFaulty]_vars

(* ============== EmailProcessorService: the processing loop ============ *)
\* the id the loop thread has in the pipeline: the message whose pass is
\* done and whose ledger write is due, or the one it is about to process
InFlight ==
    IF processing_thread # "alive" THEN 0
    ELSE IF pc["loop"] = "mark" THEN result["loop"].email_id
    ELSE IF pc["loop"] = "process" THEN emails["loop"][idx["loop"]].id
    ELSE 0

\* start_processing: resume when paused, else start the daemon thread.
\* A start while the thread of an earlier start is still alive is left out.
StartProcessing ==
    /\ handler = "none"
    /\ processing_thread # "alive"
    /\ IF is_running
       THEN /\ is_paused' = FALSE
            /\ UNCHANGED <<is_running, should_stop, processing_thread>>
       ELSE /\ is_running' = TRUE
            /\ is_paused' = FALSE
            /\ should_stop' = FALSE
            /\ processing_thread' = "alive"
    /\ UNCHANGED <<config_vars, control_vars, lock_vars, mail, inbox, db, runner_vars, history_vars,
                   reported, handler, in_flight_at_stop, call_vars>>

\* pause_processing
PauseProcessing ==
    /\ handler = "none"
    /\ is_running
    /\ is_paused' = TRUE
    /\ UNCHANGED <<config_vars, control_vars, lock_vars, mail, inbox, db, runner_vars, history_vars,
                   reported, is_running, should_stop, processing_thread,
                   handler, in_flight_at_stop, call_vars>>

\* resume_processing
ResumeProcessing ==
    /\ handler = "none"
    /\ is_running /\ is_paused
    /\ is_paused' = FALSE
    /\ UNCHANGED <<config_vars, control_vars, lock_vars, mail, inbox, db, runner_vars, history_vars,
                   reported, is_running, should_stop, processing_thread,
                   handler, in_flight_at_stop, call_vars>>

\* stop_processing, up to the join: it returns when the thread has ended or
\* after the 10 seconds of join(timeout=10), whichever comes first.
StopProcessing ==
    /\ handler = "none"
    /\ is_running
    /\ should_stop' = TRUE
    /\ is_running' = FALSE
    /\ is_paused' = FALSE
    /\ in_flight_at_stop' = InFlight
    /\ UNCHANGED <<config_vars, control_vars, lock_vars, mail, inbox, db, runner_vars, history_vars,
                   reported, processing_thread, handler, call_vars>>

\* a plausible slip: the batch is run whether the service is paused or not
LoopBatch_ignores_pause ==
    /\ processing_thread = "alive"
    /\ is_running /\ ~should_stop
    /\ StartRun("loop")

\* _processing_loop: "while self.is_running and not self.should_stop",
\* "if not self.is_paused": the next call of process_emails
LoopBatch ==
    /\ processing_thread = "alive"
    /\ is_running /\ ~should_stop /\ ~is_paused
    /\ StartRun("loop")

\* _processing_loop: the steps of the process_emails call under way
LoopStep ==
    /\ processing_thread = "alive"
    /\ \/ SeqScan("loop")
       \/ ProcessNext("loop")
       \/ MarkStep("loop")
       \/ Finish("loop")

\* _processing_loop: the wait loop breaks and the while condition is false
LoopExit ==
    /\ processing_thread = "alive"
    /\ pc["loop"] = "idle"
    /\ ~is_running \/ should_stop
    /\ processing_thread' = "ended"
    /\ UNCHANGED <<config_vars, control_vars, lock_vars, mail, inbox, db, runner_vars, history_vars,
                   reported, is_running, is_paused, should_stop, handler,
                   in_flight_at_stop, call_vars>>

\* signal_handler (SIGTERM, SIGINT): processor_service.stop_processing()
SignalStop ==
    /\ handler = "none"
    /\ IF is_running
       THEN /\ should_stop' = TRUE
            /\ is_running' = FALSE
            /\ is_paused' = FALSE
            /\ in_flight_at_stop' = InFlight
       ELSE UNCHANGED <<is_running, is_paused, should_stop, in_flight_at_stop>>
    /\ handler' = "join"
    /\ UNCHANGED <<config_vars, control_vars, lock_vars, mail, inbox, db, runner_vars, history_vars,
                   reported, processing_thread, call_vars>>

\* signal_handler: the join has returned (the thread ended, or the 10
\* seconds are over) and sys.exit(0) ends the process; a daemon thread
\* that is still alive ends with it, wherever it is.
SignalExit ==
    /\ handler = "join"
    /\ handler' = "exited"
    /\ processing_thread' = IF processing_thread = "alive" THEN "killed"
                            ELSE processing_thread
    /\ UNCHANGED <<config_vars, control_vars, lock_vars, mail, inbox, db, runner_vars, history_vars,
                   reported, is_running, is_paused, should_stop,
                   in_flight_at_stop, call_vars>>

InitServiceSpec ==
    /\ webhook_url = TRUE
    /\ max_emails = 2
    /\ archive_processed = FALSE
    /\ min_confidence_threshold = 30
    /\ parallel_processing = FALSE
    /\ db_faults = FALSE
    \* every message of the mailbox is a form with an email field
    /\ mail = [m \in Ids |-> FormKeyField]
    /\ inbox = Ids
    /\ db = EmptyDb
    /\ InitRunners
    /\ InitHistory
    /\ InitService
    /\ InitLock
    /\ InitControl
    /\ calls = 0
    /\ call = NoCall

NextService ==
    \/ StartProcessing
    \/ PauseProcessing
    \/ ResumeProcessing
    \/ StopProcessing
    \/ LoopBatch
    \/ LoopStep
    \/ LoopExit
    \/ SignalStop
    \/ SignalExit

SpecService == InitServiceSpec /\ [][NextService]_vars

\* the loop thread is a thread of the process and gets its turn
SpecServiceFair ==
    /\ InitServiceSpec /\ [][NextService]_vars
    /\ WF_vars(LoopBatch) /\ WF_vars(LoopStep) /\ WF_vars(LoopExit)

(* ====== run_once on a request thread beside the processing loop ======= *)
\* EmailProcessorService.run_once, called by the /api/run-once handler on
\* its own thread (app.run(threaded=True)): process_emails is entered on
\* the processor the loop uses, and nothing is acquired before.
RunOnce == StartRun("request")

\* run_once: the steps of its process_emails call
RunOnceStep ==
    \/ SeqScan("request")
    \/ ProcessNext("request")
    \/ MarkStep("request")
    \/ Finish("request")

InitOverlap ==
    /\ webhook_url = TRUE
    /\ max_emails = 1
    /\ archive_processed = FALSE
    /\ min_confidence_threshold = 30
    /\ parallel_processing = FALSE
    /\ db_faults = FALSE
    /\ mail = [m \in Ids |-> FormKeyField]
    /\ inbox = Ids
    /\ db = EmptyDb
    /\ InitRunners
    /\ InitHistory
    /\ InitService
    /\ InitLock
    /\ InitControl
    /\ calls = 0
    /\ call = NoCall

NextOverlap ==
    \/ StartProcessing
    \/ LoopBatch
    \/ LoopStep
    \/ RunOnce
    \/ RunOnceStep

SpecOverlap == InitOverlap /\ [][NextOverlap]_vars

(* ===== EmailProcessorService: requests and loops, statement by statement *)
\* The handlers of /api/start, /api/pause and /api/stop run on the request
\* threads of the server (app.run(threaded=True)) and read and write the
\* flags without a lock: a step below is one read or one write of a flag.
\* In this specification processing_thread is the number of the thread
\* start_processing created last (0: None), and a batch of a loop is the
\* stay of its thread at "batch".
control_rest == <<config_vars, mail, inbox, db, runner_vars, history_vars,
                  reported, handler, in_flight_at_stop, lock_vars, call_vars>>

Goto(h, to) == request' = [request EXCEPT ![h].pc = to]
Return(h, v) == request' = [request EXCEPT ![h].pc = "done", ![h].ret = v]

\* a request arrives and its handler is entered
RequestBegin(h) ==
    /\ request[h].pc = "done"
    /\ \E op \in {"start_processor", "pause_processor", "stop_processor"} :
         request' = [request EXCEPT ![h] =
                        [op |-> op,
                         pc |-> IF op = "start_processor" THEN "route"
                                ELSE IF op = "pause_processor" THEN "pause_check"
                                ELSE "stop_check",
                         stopped |-> ~is_running,
                         routed |-> "none",
                         ret |-> FALSE]]
    /\ UNCHANGED <<control_rest, is_running, is_paused, should_stop,
                   processing_thread, loop_pc>>

\* start_processor: "if processor_service.is_paused" chooses between
\* resume_processing and start_processing
RouteStep(h) ==
    /\ request[h].pc = "route"
    /\ request' = [request EXCEPT
                      ![h].pc = IF is_paused THEN "resume_check" ELSE "start_check",
                      ![h].routed = IF is_paused THEN "resume_processing"
                                    ELSE "start_processing"]
    /\ UNCHANGED <<control_rest, is_running, is_paused, should_stop,
                   processing_thread, loop_pc>>

\* threading.Thread(target=self._processing_loop): the next thread
new_thread ==
    {t \in Threads : /\ loop_pc[t] = "unborn"
                     /\ \A u \in Threads : u < t => loop_pc[u] # "unborn"}

\* start_processing
StartStep(h) ==
    \/ /\ request[h].pc = "start_check"
       /\ Goto(h, IF is_running THEN "start_paused_check" ELSE "start_set_running")
       /\ UNCHANGED <<control_rest, is_running, is_paused, should_stop,
                      processing_thread, loop_pc>>
    \/ /\ request[h].pc = "start_paused_check"
       /\ IF is_paused THEN Goto(h, "resume_check") ELSE Return(h, FALSE)
       /\ UNCHANGED <<control_rest, is_running, is_paused, should_stop,
                      processing_thread, loop_pc>>
    \/ /\ request[h].pc = "start_set_running"
       /\ is_running' = TRUE
       /\ Goto(h, "start_set_paused")
       /\ UNCHANGED <<control_rest, is_paused, should_stop, processing_thread,
                      loop_pc>>
    \/ /\ request[h].pc = "start_set_paused"
       /\ is_paused' = FALSE
       /\ Goto(h, "start_set_stop")
       /\ UNCHANGED <<control_rest, is_running, should_stop, processing_thread,
                      loop_pc>>
    \/ /\ request[h].pc = "start_set_stop"
       /\ should_stop' = FALSE
       /\ Goto(h, "start_thread")
       /\ UNCHANGED <<control_rest, is_running, is_paused, processing_thread,
                      loop_pc>>
    \/ /\ request[h].pc = "start_thread"
       /\ \E t \in new_thread :
             /\ processing_thread' = t
             /\ loop_pc' = [loop_pc EXCEPT ![t] = "while"]
       /\ Return(h, TRUE)
       /\ UNCHANGED <<control_rest, is_running, is_paused, should_stop>>

\* pause_processing
PauseStep(h) ==
    \/ /\ request[h].pc = "pause_check"
       /\ IF is_running THEN Goto(h, "pause_set") ELSE Return(h, FALSE)
       /\ UNCHANGED <<control_rest, is_running, is_paused, should_stop,
                      processing_thread, loop_pc>>
    \/ /\ request[h].pc = "pause_set"
       /\ is_paused' = TRUE
       /\ Return(h, TRUE)
       /\ UNCHANGED <<control_rest, is_running, should_stop, processing_thread,
                      loop_pc>>

\* resume_processing: "if not self.is_running or not self.is_paused"
ResumeStep(h) ==
    \/ /\ request[h].pc = "resume_check"
       /\ IF is_running THEN Goto(h, "resume_check_paused") ELSE Return(h, FALSE)
       /\ UNCHANGED <<control_rest, is_running, is_paused, should_stop,
                      processing_thread, loop_pc>>
    \/ /\ request[h].pc = "resume_check_paused"
       /\ IF is_paused THEN Goto(h, "resume_set") ELSE Return(h, FALSE)
       /\ UNCHANGED <<control_rest, is_running, is_paused, should_stop,
                      processing_thread, loop_pc>>
    \/ /\ request[h].pc = "resume_set"
       /\ is_paused' = FALSE
       /\ Return(h, TRUE)
       /\ UNCHANGED <<control_rest, is_running, should_stop, processing_thread,
                      loop_pc>>

\* stop_processing; the join returns when the thread has ended or after
\* its 10 seconds
StopStep(h) ==
    \/ /\ request[h].pc = "stop_check"
       /\ IF is_running THEN Goto(h, "stop_set_stop") ELSE Return(h, FALSE)
       /\ UNCHANGED <<control_rest, is_running, is_paused, should_stop,
                      processing_thread, loop_pc>>
    \/ /\ request[h].pc = "stop_set_stop"
       /\ should_stop' = TRUE
       /\ Goto(h, "stop_set_running")
       /\ UNCHANGED <<control_rest, is_running, is_paused, processing_thread,
                      loop_pc>>
    \/ /\ request[h].pc = "stop_set_running"
       /\ is_running' = FALSE
       /\ Goto(h, "stop_set_paused")
       /\ UNCHANGED <<control_rest, is_paused, should_stop, processing_thread,
                      loop_pc>>
    \/ /\ request[h].pc = "stop_set_paused"
       /\ is_paused' = FALSE
       /\ Goto(h, "stop_join")
       /\ UNCHANGED <<control_rest, is_running, should_stop, processing_thread,
                      loop_pc>>
    \/ /\ request[h].pc = "stop_join"
       /\ Return(h, TRUE)
       /\ UNCHANGED <<control_rest, is_running, is_paused, should_stop,
                      processing_thread, loop_pc>>

\* _processing_loop: "while self.is_running and not self.should_stop"
LoopWhile(t) ==
    /\ loop_pc[t] = "while"
    /\ loop_pc' = [loop_pc EXCEPT ![t] =
                      IF is_running /\ ~should_stop THEN "body" ELSE "ended"]
    /\ UNCHANGED <<control_rest, is_running, is_paused, should_stop,
                   processing_thread, request>>

\* _processing_loop: "if not self.is_paused: ... process_emails()"
LoopBody(t) ==
    /\ loop_pc[t] = "body"
    /\ loop_pc' = [loop_pc EXCEPT ![t] = IF ~is_paused THEN "batch" ELSE "wait"]
    /\ UNCHANGED <<control_rest, is_running, is_paused, should_stop,
                   processing_thread, request>>

\* _processing_loop: process_emails returns, or raises into the except
LoopBatchEnd(t) ==
    /\ loop_pc[t] = "batch"
    /\ loop_pc' = [loop_pc EXCEPT ![t] = "wait"]
    /\ UNCHANGED <<control_rest, is_running, is_paused, should_stop,
                   processing_thread, request>>

\* _processing_loop: the wait loop ends, by its break or by its count
LoopWait(t) ==
    /\ loop_pc[t] = "wait"
    /\ loop_pc' = [loop_pc EXCEPT ![t] = "while"]
    /\ UNCHANGED <<control_rest, is_running, is_paused, should_stop,
                   processing_thread, request>>

InitControlSpec ==
    /\ webhook_url = TRUE
    /\ max_emails = 1
    /\ archive_processed = FALSE
    /\ min_confidence_threshold = 30
    /\ parallel_processing = FALSE
    /\ db_faults = FALSE
    /\ mail = [m \in Ids |-> Unread]
    /\ inbox = Ids
    /\ db = EmptyDb
    /\ InitRunners
    /\ InitHistory
    /\ is_running = FALSE
    /\ is_paused = FALSE
    /\ should_stop = FALSE
    /\ processing_thread = 0
    /\ handler = "none"
    /\ in_flight_at_stop = 0
    /\ InitLock
    /\ InitControl
    /\ calls = 0
    /\ call = NoCall

NextControl ==
    \/ \E h \in Handlers :
          \/ RequestBegin(h)
          \/ RouteStep(h)
          \/ StartStep(h)
          \/ PauseStep(h)
          \/ ResumeStep(h)
          \/ StopStep(h)
    \/ \E t \in Threads :
          \/ LoopWhile(t)
          \/ LoopBody(t)
          \/ LoopBatchEnd(t)
          \/ LoopWait(t)

SpecControl == InitControlSpec /\ [][NextControl]_vars

(* ============ EmailDatabase: threads inside the ledger methods ======== *)
\* The outcomes handed to mark_email_processed here: a delivered and a
\* refused form with an email field, for each id.
LockResults ==
    {process_single_email(email_data_of(m, FormKeyField), TRUE, FALSE, 30,
                          o, TRUE).result :
        m \in Ids, o \in {AllSucceed, AllFail}}

LedgerOps ==
    {[op |-> "is_email_processed", email_id |-> m] : m \in Ids}
      \cup {[op |-> "mark_email_processed", result |-> res] : res \in LockResults}
      \cup {[op |-> "get_stats"]}

\* a plausible slip: the method body is not under the lock, so that a
\* thread enters whoever holds it
can_acquire_unguarded(owner, t) == TRUE

\* threading.RLock: free, or held by the calling thread itself
can_acquire(owner, t) == owner \in {"none", t}

lock_rest == <<config_vars, control_vars, service_vars, mail, inbox, runner_vars,
               history_vars, reported, call>>

\* a thread calls one of the three methods
LedgerCall(t) ==
    /\ ledger_pc[t] = "out"
    /\ calls < MaxCalls
    /\ \E o \in LedgerOps : ledger_op' = [ledger_op EXCEPT ![t] = o]
    /\ ledger_pc' = [ledger_pc EXCEPT ![t] = "acquire"]
    /\ calls' = calls + 1
    /\ UNCHANGED <<lock_rest, db, lock_owner, lock_depth, connection_pool, txn>>

\* "with self._connection_lock:"
LedgerAcquire(t) ==
    /\ ledger_pc[t] = "acquire"
    /\ can_acquire(lock_owner, t)
    /\ lock_owner' = t
    /\ lock_depth' = lock_depth + 1
    /\ ledger_pc' = [ledger_pc EXCEPT ![t] = "conn"]
    /\ UNCHANGED <<lock_rest, db, calls, connection_pool, ledger_op, txn>>

\* "conn = self.get_connection()": the lock is taken again and given back
\* by the same thread, and the thread's connection is created if absent
GetConnection(t) ==
    /\ ledger_pc[t] = "conn"
    /\ can_acquire(lock_owner, t)
    /\ connection_pool' = connection_pool \cup {t}
    /\ ledger_pc' = [ledger_pc EXCEPT ![t] =
                       CASE ledger_op[t].op = "is_email_processed" -> "select"
                         [] ledger_op[t].op = "mark_email_processed" -> "upsert"
                         [] OTHER -> "counts"]
    /\ UNCHANGED <<lock_rest, db, calls, lock_owner, lock_depth, ledger_op, txn>>

\* is_email_processed: the SELECT and the return value
LedgerSelect(t) ==
    /\ ledger_pc[t] = "select"
    /\ ledger_op' = [ledger_op EXCEPT ![t] =
                       [op |-> "is_email_processed",
                        email_id |-> ledger_op[t].email_id,
                        ret |-> is_email_processed(db, ledger_op[t].email_id, TRUE)]]
    /\ ledger_pc' = [ledger_pc EXCEPT ![t] = "release"]
    /\ UNCHANGED <<lock_rest, db, calls, lock_owner, lock_depth,
                   connection_pool, txn>>

\* mark_email_processed: INSERT OR REPLACE INTO processed_emails, in the
\* transaction of the thread's connection
LedgerUpsert(t) ==
    /\ ledger_pc[t] = "upsert"
    /\ txn' = [txn EXCEPT ![t] =
                 [open |-> TRUE,
                  image |-> [db EXCEPT !.processed_emails =
                                insert_or_replace(db.processed_emails,
                                                  ledger_row(ledger_op[t].result))]]]
    /\ ledger_pc' = [ledger_pc EXCEPT ![t] = "fields"]
    /\ UNCHANGED <<lock_rest, db, calls, lock_owner, lock_depth,
                   connection_pool, ledger_op>>

\* mark_email_processed: the INSERTs INTO extracted_fields
LedgerFields(t) ==
    /\ ledger_pc[t] = "fields"
    /\ txn' = [txn EXCEPT ![t].image.extracted_fields =
                 insert_extracted_fields(@, ledger_op[t].result.email_id,
                                         ledger_op[t].result.extracted_fields)]
    /\ ledger_pc' = [ledger_pc EXCEPT ![t] = "commit"]
    /\ UNCHANGED <<lock_rest, db, calls, lock_owner, lock_depth,
                   connection_pool, ledger_op>>

\* mark_email_processed: conn.commit()
LedgerCommit(t) ==
    /\ ledger_pc[t] = "commit"
    /\ db' = txn[t].image
    /\ txn' = [txn EXCEPT ![t] = NoTxn]
    /\ ledger_pc' = [ledger_pc EXCEPT ![t] = "release"]
    /\ UNCHANGED <<lock_rest, calls, lock_owner, lock_depth, connection_pool,
                   ledger_op>>

\* get_stats: the COUNT queries on processed_emails
LedgerCounts(t) ==
    /\ ledger_pc[t] = "counts"
    /\ ledger_op' = [ledger_op EXCEPT ![t] =
                       [op |-> "get_stats",
                        total_processed |-> get_stats(db).total_processed,
                        successful_webhooks |-> get_stats(db).successful_webhooks,
                        failed_webhooks |-> get_stats(db).failed_webhooks]]
    /\ ledger_pc' = [ledger_pc EXCEPT ![t] = "field_stats"]
    /\ UNCHANGED <<lock_rest, db, calls, lock_owner, lock_depth,
                   connection_pool, txn>>

\* get_stats: the query on extracted_fields and the returned dict
LedgerFieldStats(t) ==
    /\ ledger_pc[t] = "field_stats"
    /\ ledger_op' = [ledger_op EXCEPT ![t] =
                       [op |-> "get_stats",
                        total_processed |-> ledger_op[t].total_processed,
                        successful_webhooks |-> ledger_op[t].successful_webhooks,
                        failed_webhooks |-> ledger_op[t].failed_webhooks,
                        field_extraction_stats |->
                            get_stats(db).field_extraction_stats]]
    /\ ledger_pc' = [ledger_pc EXCEPT ![t] = "release"]
    /\ UNCHANGED <<lock_rest, db, calls, lock_owner, lock_depth,
                   connection_pool, txn>>

\* the end of the "with" block
LedgerRelease(t) ==
    /\ ledger_pc[t] = "release"
    /\ lock_depth' = IF lock_owner = t THEN lock_depth - 1 ELSE lock_depth
    /\ lock_owner' = IF lock_owner = t /\ lock_depth = 1 THEN "none"
                     ELSE lock_owner
    /\ ledger_pc' = [ledger_pc EXCEPT ![t] = "out"]
    /\ UNCHANGED <<lock_rest, db, calls, connection_pool, ledger_op, txn>>

InitLockSpec ==
    /\ webhook_url = TRUE
    /\ max_emails = 1
    /\ archive_processed = FALSE
    /\ min_confidence_threshold = 30
    /\ parallel_processing = FALSE
    /\ db_faults = FALSE
    /\ mail = [m \in Ids |-> Unread]
    /\ inbox = Ids
    /\ db = EmptyDb
    /\ InitRunners
    /\ InitHistory
    /\ InitService
    /\ InitLock
    /\ InitControl
    /\ calls = 0
    /\ call = NoCall

NextLock ==
    \E t \in Runners :
        \/ LedgerCall(t)
        \/ LedgerAcquire(t)
        \/ GetConnection(t)
        \/ LedgerSelect(t)
        \/ LedgerUpsert(t)
        \/ LedgerFields(t)
        \/ LedgerCommit(t)
        \/ LedgerCounts(t)
        \/ LedgerFieldStats(t)
        \/ LedgerRelease(t)

SpecLock == InitLockSpec /\ [][NextLock]_vars

(* ===================== calls on the ledger, directly ================== *)
\* The outcomes handed to mark_email_processed: those process_single_email
\* produces for some message, configuration and environment.
LedgerContents == {AdWithEmail, FormTwoField, FormKeyField, Malformed}

LedgerResults ==
    {process_single_email(email_data_of(m, c), u, a, 30, o, k).result :
        m \in Ids, c \in LedgerContents, u \in BOOLEAN, a \in BOOLEAN,
        o \in {AllSucceed, AllFail}, k \in BOOLEAN}

InitLedger ==
    /\ webhook_url = TRUE
    /\ max_emails = 1
    /\ archive_processed = TRUE
    /\ min_confidence_threshold = 30
    /\ parallel_processing = FALSE
    /\ db_faults = FALSE
    /\ mail = [m \in Ids |-> Unread]
    /\ inbox = Ids
    /\ db = EmptyDb
    /\ InitRunners
    /\ InitHistory
    /\ InitService
    /\ InitLock
    /\ InitControl
    /\ calls = 0
    /\ call = NoCall

\* db.mark_email_processed(res), called on the database as it stands
MarkCall ==
    /\ calls < MaxCalls
    /\ \E res \in LedgerResults, db_ok \in DbOutcomes :
         /\ db' = mark_email_processed(db, res, db_ok)
         /\ call' = [op |-> "mark_email_processed", result |-> res,
                     before |-> db,
                     replay |-> (/\ call.op = "mark_email_processed"
                                 /\ call.result = res)]
         /\ last_marked' = [last_marked EXCEPT ![res.email_id] = res]
    /\ calls' = calls + 1
    /\ UNCHANGED <<config_vars, control_vars, lock_vars, service_vars, reported, mail, inbox, runner_vars, runs, posts, acked,
                   archive_calls, handed, work, last_pass>>

\* EnhancedGmailProcessor.clear_processed_data: self.db.clear_all_data()
\* inside try/except.  EmailDatabase defines no clear_all_data, so the call
\* raises AttributeError, nothing is deleted and False is returned.
clear_processed_data(db_now) ==
    [ret |-> "clear_all_data" \in EmailDatabase_methods, db |-> db_now]

\* processor_service.clear_processed_data(), on the database as it stands
ClearCall ==
    /\ calls < MaxCalls
    /\ LET cleared == clear_processed_data(db)
       IN  /\ db' = cleared.db
           /\ call' = [op |-> "clear_processed_data", ret |-> cleared.ret,
                       before |-> db]
    /\ calls' = calls + 1
    /\ UNCHANGED <<config_vars, control_vars, lock_vars, service_vars, reported, mail, inbox, runner_vars, history_vars>>

NextLedger == MarkCall \/ ClearCall

SpecLedger == InitLedger /\ [][NextLedger]_vars

(* ================= calls on the processor, one per behaviour ========== *)
InitCalls ==
    /\ webhook_url \in BOOLEAN
    /\ max_emails = 1
    /\ archive_processed \in BOOLEAN
    /\ min_confidence_threshold \in {30, 95}
    /\ parallel_processing = FALSE
    /\ db_faults = FALSE
    /\ mail = [m \in Ids |-> Unread]
    /\ inbox = Ids
    /\ db = EmptyDb
    /\ InitRunners
    /\ InitHistory
    /\ InitService
    /\ InitLock
    /\ InitControl
    /\ calls = 0
    /\ call = NoCall

\* processor.send_to_webhook(data, email_id)
SendCall ==
    /\ calls = 0
    /\ \E outcomes \in [1..max_tries -> AllPostOutcomes] :
         LET sent == send_to_webhook(webhook_url, outcomes)
         IN  call' = [op |-> "send_to_webhook", outcomes |-> outcomes,
                      ret |-> sent.ret, raised |-> sent.raised,
                      posts |-> sent.posts]
    /\ calls' = 1
    /\ UNCHANGED <<config_vars, control_vars, lock_vars, service_vars, reported, mail, inbox, db, runner_vars, history_vars>>

\* processor.process_single_email(email_data)
SingleCall ==
    /\ calls = 0
    /\ \E m \in Ids, c \in AllContents, modify_ok \in BOOLEAN :
         \E outcomes \in AskedOutcomes(email_data_of(m, c), webhook_url,
                                       archive_processed,
                                       min_confidence_threshold, PostOutcomes) :
            call' = [op |-> "process_single_email",
                     email_data |-> email_data_of(m, c),
                     outcomes |-> outcomes, modify_ok |-> modify_ok,
                     pass |-> process_single_email(
                                  email_data_of(m, c), webhook_url,
                                  archive_processed, min_confidence_threshold,
                                  outcomes, modify_ok)]
    /\ calls' = 1
    /\ UNCHANGED <<config_vars, control_vars, lock_vars, service_vars, reported, mail, inbox, db, runner_vars, history_vars>>

NextCalls == SendCall \/ SingleCall

SpecCalls == InitCalls /\ [][NextCalls]_vars

(* ============ field extraction: strings, validators, rules ============ *)
\* A string is a sequence of one-character strings.  The characters that
\* matter to the code modelled here: digits, the blank, the colon, the age
\* suffixes "sai" (U+6B73) and "sai2" (U+624D), the honorifics "sama"
\* (U+69D8), "san" and "dono" (U+6BBF), and letters.
MaxDigits == 3

DigitChars == <<"0", "1", "2", "3", "4", "5", "6", "7", "8", "9">>
IsDigit(c) == \E i \in 1..10 : DigitChars[i] = c
digit_value(c) == (CHOOSE i \in 1..10 : DigitChars[i] = c) - 1

\* int(s) of a run of digits
RECURSIVE int(_)
int(s) ==
    IF s = <<>> THEN 0
    ELSE int(SubSeq(s, 1, Len(s) - 1)) * 10 + digit_value(s[Len(s)])

\* str(n) of a non-negative integer
RECURSIVE str(_)
str(n) ==
    IF n < 10 THEN <<DigitChars[n + 1]>>
    ELSE str(n \div 10) \o <<DigitChars[(n % 10) + 1]>>

RECURSIVE leading_digits(_)
leading_digits(s) ==
    IF s = <<>> \/ ~IsDigit(Head(s)) THEN <<>>
    ELSE <<Head(s)>> \o leading_digits(Tail(s))

\* re.findall(r'\d+', value): the first run, or empty when there is none
RECURSIVE first_digit_run(_)
first_digit_run(value) ==
    IF value = <<>> THEN <<>>
    ELSE IF IsDigit(Head(value)) THEN leading_digits(value)
    ELSE first_digit_run(Tail(value))

\* a plausible slip: the upper limit one digit off
validate_age_up_to_150(value) ==
    LET numbers == first_digit_run(value)
    IN  IF numbers # <<>> /\ 0 <= int(numbers) /\ int(numbers) <= 150
        THEN [is_valid |-> TRUE, value |-> str(int(numbers))]
        ELSE [is_valid |-> FALSE, value |-> value]

validate_age(value) ==
    LET numbers == first_digit_run(value)
    IN  IF numbers # <<>> /\ 0 <= int(numbers) /\ int(numbers) <= 120
        THEN [is_valid |-> TRUE, value |-> str(int(numbers))]
        ELSE [is_valid |-> FALSE, value |-> value]

\* str.strip()
RECURSIVE lstrip(_)
lstrip(s) == IF s # <<>> /\ Head(s) = " " THEN lstrip(Tail(s)) ELSE s

RECURSIVE rstrip(_)
rstrip(s) ==
    IF s # <<>> /\ s[Len(s)] = " " THEN rstrip(SubSeq(s, 1, Len(s) - 1)) ELSE s

strip(s) == rstrip(lstrip(s))

\* str.lower() on the letters of the alphabet used here
lower(s) == [i \in DOMAIN s |-> IF s[i] = "S" THEN "s" ELSE s[i]]

\* re.sub(r'^\s*[:]\s*', '', cleaned).strip()
drop_leading(s, cs) ==
    IF s # <<>> /\ Head(s) \in cs THEN strip(Tail(s)) ELSE s

\* re.sub(r'\s*X\s*$', '', cleaned).strip()
drop_trailing(s, cs) ==
    IF s # <<>> /\ s[Len(s)] \in cs THEN strip(SubSeq(s, 1, Len(s) - 1)) ELSE s

clean_generic_value(value) ==
    IF value = <<>> THEN <<>>
    ELSE LET c0 == strip(value)
             c1 == drop_leading(c0, {":"})
             c2 == drop_trailing(c1, {":"})
             c3 == drop_trailing(c2, {"sama"})
             c4 == drop_trailing(c3, {"san"})
         IN  drop_trailing(c4, {"dono"})

\* characters outside \w and the Japanese ranges
NonWordChars == {" ", ":", "-"}

\* The validators of email, phone, postal_code and url are not modelled:
\* no match of these four fields is drawn below.
validate_field_value(field_name, value) ==
    IF field_name = "age" THEN validate_age(value)
    ELSE LET cleaned == clean_generic_value(value)
         IN  [is_valid |-> /\ Len(cleaned) >= 2
                           /\ ~(\A i \in DOMAIN cleaned : cleaned[i] \in NonWordChars),
              value |-> cleaned]

\* get_extraction_patterns: the base confidence of each rule, in percent,
\* in the order of the rule list
get_extraction_patterns ==
    [name |-> <<90, 70, 60>>, furigana |-> <<95, 50>>, email |-> <<95, 90>>,
     phone |-> <<90, 85>>, age |-> <<95, 80>>, postal_code |-> <<95, 90>>,
     address |-> <<90, 70>>, inquiry_text |-> <<90, 80>>,
     company_name |-> <<90, 80>>, property_name |-> <<90, 70>>,
     price |-> <<90, 80>>, url |-> <<95, 80>>]

context_keywords ==
    [name |-> {"namae", "name", "shimei", "okyakusama"},
     email |-> {"meeru", "mail", "adoresu", "renrakusaki"},
     phone |-> {"denwa", "tel", "phone", "keitai", "bangou"},
     address |-> {"juusho", "address", "shozaichi"},
     inquiry |-> {"toiawase", "inquiry", "shitsumon", "soudan"}]

\* a plausible slip: the bonus is returned without its cap
calculate_context_confidence_uncapped(context, field_name) ==
    LET keywords == IF field_name \in DOMAIN context_keywords
                    THEN context_keywords[field_name] ELSE {}
    IN  10 * Cardinality(keywords \cap context)

\* context: the words of the 100 characters either side of the match
calculate_context_confidence(context, field_name) ==
    LET keywords == IF field_name \in DOMAIN context_keywords
                    THEN context_keywords[field_name] ELSE {}
        bonus == 10 * Cardinality(keywords \cap context)
    IN  Min(20, bonus)

\* What re.finditer yields for one rule of a field: the rule, where the
\* match starts, the text of group 1 and the words around it.
Match(rule, position, value, context) ==
    [rule |-> rule, position |-> position, value |-> value, context |-> context]

\* the matches in the order the two loops visit them: rule by rule, and
\* within a rule from left to right
RECURSIVE finditer(_)
finditer(ms) ==
    IF ms = {} THEN <<>>
    ELSE LET m == CHOOSE x \in ms : \A y \in ms :
                      \/ x.rule < y.rule
                      \/ x.rule = y.rule /\ x.position <= y.position
         IN  <<m>> \o finditer(ms \ {m})

ExtractedField(field_name, value, confidence, rule, position) ==
    [name |-> field_name, value |-> value, confidence |-> confidence,
     source_pattern |-> rule, position |-> position, validation_passed |-> TRUE]

\* the body of the two loops of extract_field
RECURSIVE extracted_of(_, _)
extracted_of(found, field_name) ==
    IF found = <<>> THEN <<>>
    ELSE LET m == Head(found)
             value == strip(m.value)
             checked == validate_field_value(field_name, value)
             base_confidence == get_extraction_patterns[field_name][m.rule]
             context_bonus == calculate_context_confidence(m.context, field_name)
             final_confidence == Min(99, base_confidence + context_bonus)
             rest == extracted_of(Tail(found), field_name)
         IN  IF value = <<>> THEN rest
             ELSE IF checked.is_valid /\ checked.value # <<>>
             THEN <<ExtractedField(field_name, checked.value, final_confidence,
                                   m.rule, m.position)>> \o rest
             ELSE rest

\* a plausible slip: the sort key without the position
sort_key_before_no_position(a, b) == a.confidence > b.confidence

\* key=lambda x: (-x.confidence, x.position)
sort_key_before(a, b) ==
    \/ a.confidence > b.confidence
    \/ a.confidence = b.confidence /\ a.position < b.position

\* list.sort is stable: an element goes behind those that compare equal
RECURSIVE insert_by_key(_, _)
insert_by_key(sorted, f) ==
    IF sorted = <<>> THEN <<f>>
    ELSE IF sort_key_before(f, Head(sorted)) THEN <<f>> \o sorted
    ELSE <<Head(sorted)>> \o insert_by_key(Tail(sorted), f)

RECURSIVE sort_fields(_)
sort_fields(fields) ==
    IF fields = <<>> THEN <<>>
    ELSE insert_by_key(sort_fields(SubSeq(fields, 1, Len(fields) - 1)),
                       fields[Len(fields)])

\* seen_values[normalized_value] = field: a new key goes to the end of the
\* dict, a key already there keeps its place
seen_put(seen, key, f) ==
    IF \E i \in DOMAIN seen : seen[i].key = key
    THEN [i \in DOMAIN seen |->
             IF seen[i].key = key THEN [key |-> key, field |-> f] ELSE seen[i]]
    ELSE Append(seen, [key |-> key, field |-> f])

RECURSIVE seen_values(_)
seen_values(fields) ==
    IF fields = <<>> THEN <<>>
    ELSE LET seen == seen_values(SubSeq(fields, 1, Len(fields) - 1))
             f == fields[Len(fields)]
             normalized_value == strip(lower(f.value))
         IN  IF \/ ~(\E i \in DOMAIN seen : seen[i].key = normalized_value)
                \/ \E i \in DOMAIN seen :
                      /\ seen[i].key = normalized_value
                      /\ seen[i].field.confidence < f.confidence
             THEN seen_put(seen, normalized_value, f)
             ELSE seen

deduplicate_fields(fields) ==
    LET seen == seen_values(fields)
    IN  [i \in DOMAIN seen |-> seen[i].field]

\* ms: what the rules of field_name match in the text
extract_field(ms, field_name) ==
    IF ms = {} \/ field_name \notin DOMAIN get_extraction_patterns THEN <<>>
    ELSE deduplicate_fields(sort_fields(extracted_of(finditer(ms), field_name)))

\* max(extracted_fields, key=lambda x: x.confidence): the first of the
\* elements with the largest key
best_field(extracted_fields) ==
    extracted_fields[CHOOSE i \in DOMAIN extracted_fields :
        /\ \A j \in DOMAIN extracted_fields :
              extracted_fields[j].confidence <= extracted_fields[i].confidence
        /\ \A j \in 1..(i - 1) :
              extracted_fields[j].confidence < extracted_fields[i].confidence]

(* ------------------- the universal template and its filling ----------- *)
\* get_universal_template.  A key is written by its ASCII part, the empty
\* string and the empty list are the empty sequence, customer_info and
\* reservation_info are lists of one dict.
get_universal_template ==
    [sender_email |-> <<>>, timestamp |-> <<>>, subject |-> <<>>,
     processing_metadata |->
        [extraction_confidence |-> 0, extracted_field_count |-> 0,
         processing_time_ms |-> 0,
         extraction_method |-> "smart_pattern_matching"],
     company_info |->
        [company_name |-> <<>>, branch_name |-> <<>>,
         received_datetime |-> <<>>, id |-> <<>>, serial_number |-> <<>>,
         contact_datetime |-> <<>>, contact_plan |-> <<>>,
         delivery_type |-> <<>>, delivery_code |-> <<>>, url |-> <<>>],
     staff_info |->
        [staff_in_charge |-> <<>>, status |-> <<>>, occurrence_type |-> <<>>],
     event_info |->
        [event_name |-> <<>>, event_date |-> <<>>, event_time |-> <<>>,
         event_place |-> <<>>, event_url |-> <<>>],
     reservation_info |->
        <<[preferred_date |-> <<>>, preferred_time |-> <<>>,
           reservation_status |-> <<>>, meeting_place |-> <<>>,
           reservation_id |-> <<>>, property_type |-> <<>>,
           property_code |-> <<>>, property_name |-> <<>>,
           company_property_code |-> <<>>, location |-> <<>>,
           price |-> <<>>, property_url |-> <<>>]>>,
     document_request_info |->
        [requested_booklets |-> <<>>, requested_properties |-> <<>>],
     inquiry_info |-> [inquiry_text |-> <<>>, inquiry_source |-> <<>>],
     survey_info |->
        [preferred_area |-> <<>>, railway_line |-> <<>>,
         other_requests |-> <<>>, school_district |-> <<>>,
         parking_spaces |-> <<>>, floors |-> <<>>, budget_total |-> <<>>,
         budget_monthly |-> <<>>],
     property_info |->
        [company_name |-> <<>>, branch_name |-> <<>>, issue |-> <<>>,
         property_type |-> <<>>, property_code |-> <<>>,
         property_name |-> <<>>, company_property_code |-> <<>>,
         nearest_station |-> <<>>, bus_walk |-> <<>>, location |-> <<>>,
         price |-> <<>>, land_area |-> <<>>, building_area |-> <<>>,
         property_url |-> <<>>, floor_plan |-> <<>>, age |-> <<>>,
         other_pr_points |-> <<>>],
     customer_info |->
        <<[name |-> <<>>, furigana |-> <<>>, email |-> <<>>,
           phone_number |-> <<>>, phone_number2 |-> <<>>,
           fax_number |-> <<>>, age |-> <<>>, postal_code |-> <<>>,
           address |-> <<>>, monthly_rent |-> <<>>,
           monthly_payment |-> <<>>, preferred_area |-> <<>>,
           registration_reason |-> <<>>, preferred_contact_method |-> <<>>,
           newsletter_opt_in |-> <<>>, comments |-> <<>>]>>,
     housing_preferences |->
        [mansion_preferences |->
            [preferred_area |-> <<>>, school_district |-> <<>>,
             price_range |-> <<>>, floor_plan |-> <<>>,
             exclusive_area |-> <<>>, pet_allowed |-> <<>>,
             other_conditions |-> <<>>],
         house_preferences |->
            [preferred_area |-> <<>>, school_district |-> <<>>,
             price_range |-> <<>>, floor_plan |-> <<>>,
             land_area |-> <<>>, building_area |-> <<>>,
             other_conditions |-> <<>>]]]

\* d[k] = v on a dict: the key is added when it is not there
setitem(d, k, v) == [x \in DOMAIN d \cup {k} |-> IF x = k THEN v ELSE d[x]]

\* universal_data[section][key] = v
set_in(u, section, key, v) == setitem(u, section, setitem(u[section], key, v))

\* universal_data[section][0][key] = v
set_in_first(u, section, key, v) ==
    setitem(u, section, [u[section] EXCEPT ![1] = setitem(u[section][1], key, v)])

endswith(s, cs) == s # <<>> /\ s[Len(s)] \in cs
startswith(s, cs) == s # <<>> /\ Head(s) \in cs

\* a plausible slip: every field written to the customer entry under its
\* own name
map_field_by_own_name(u, f) ==
    IF f.value = <<>> \/ strip(f.value) = <<>> THEN u
    ELSE set_in_first(u, "customer_info", f.name, f.value)

\* one turn of the loop of map_fields_to_universal_json
map_field(u, f) ==
    LET value == f.value
    IN  IF value = <<>> \/ strip(value) = <<>> THEN u
        ELSE IF f.name = "name"
        THEN set_in_first(u, "customer_info", "name", value)
        ELSE IF f.name = "furigana"
        THEN set_in_first(u, "customer_info", "furigana", value)
        ELSE IF f.name = "email"
        THEN set_in_first(u, "customer_info", "email", value)
        ELSE IF f.name = "phone"
        THEN set_in_first(u, "customer_info", "phone_number", value)
        ELSE IF f.name = "age"
        THEN set_in_first(u, "customer_info", "age",
                          IF ~endswith(value, {"sai", "sai2"})
                          THEN value \o <<"sai">> ELSE value)
        ELSE IF f.name = "postal_code"
        THEN set_in_first(u, "customer_info", "postal_code",
                          IF ~startswith(value, {"yuubin"})
                          THEN <<"yuubin">> \o value ELSE value)
        ELSE IF f.name = "address"
        THEN set_in_first(u, "customer_info", "address", value)
        ELSE IF f.name = "inquiry_text"
        THEN set_in_first(set_in(u, "inquiry_info", "inquiry_text", value),
                          "customer_info", "comments", value)
        ELSE IF f.name = "company_name"
        THEN set_in(set_in(u, "company_info", "company_name", value),
                    "property_info", "company_name", value)
        ELSE IF f.name = "property_name"
        THEN set_in_first(set_in(u, "property_info", "property_name", value),
                          "reservation_info", "property_name", value)
        ELSE IF f.name = "price"
        THEN set_in_first(set_in(u, "property_info", "price", value),
                          "reservation_info", "price", value)
        ELSE IF f.name = "url"
        THEN set_in(set_in(set_in(u, "company_info", "url", value),
                           "event_info", "event_url", value),
                    "property_info", "property_url", value)
        ELSE u

\* extracted_fields is a dict keyed by field name, here a set of
\* ExtractedField records with different names; the fields write to
\* different leaves, so the order of the loop does not show
RECURSIVE map_fields_to_universal_json(_, _)
map_fields_to_universal_json(universal_data, extracted_fields) ==
    IF extracted_fields = {} THEN universal_data
    ELSE LET f == CHOOSE g \in extracted_fields : TRUE
         IN  map_fields_to_universal_json(map_field(universal_data, f),
                                          extracted_fields \ {f})

field_names ==
    <<"name", "furigana", "email", "phone", "age", "postal_code", "address",
      "inquiry_text", "company_name", "property_name", "price", "url">>

\* the loop over field_names: the best candidate of each field that has one
all_extracted_fields_of(matches) ==
    {best_field(extract_field(matches[field_names[i]], field_names[i])) :
        i \in {j \in DOMAIN field_names :
                 extract_field(matches[field_names[j]], field_names[j]) # <<>>}}

Abs(n) == IF n < 0 THEN 0 - n ELSE n

\* round(avg_confidence, 3), in thousandths.  avg_confidence is a binary
\* fraction: a mean that lies half-way between two thousandths is stored
\* just above or just below the tie, and the result is either neighbour.
round3(mean) ==
    {p \in 0..1000 : 2 * Abs(p * mean.den - 10 * mean.num) <= mean.den}

\* extract_universal_json_data on a message given by its headers and by
\* what the rules match in subject and body; processing_time is the
\* elapsed time read from the clock, rounded the thousandth round() returns
universal_json_data(email_data, processing_time, rounded) ==
    LET u0 == get_universal_template
        u1 == setitem(u0, "sender_email", email_data.sender)
        u2 == setitem(u1, "timestamp", email_data.formatted_date)
        u3 == setitem(u2, "subject", email_data.subject)
        u4 == set_in(u3, "company_info", "received_datetime",
                     email_data.formatted_date)
        u5 == set_in(u4, "company_info", "id", str(email_data.id))
        all_extracted_fields == all_extracted_fields_of(email_data.matches)
        u6 == map_fields_to_universal_json(u5, all_extracted_fields)
        u7 == set_in(u6, "processing_metadata", "extraction_confidence", rounded)
        u8 == set_in(u7, "processing_metadata", "extracted_field_count",
                     Cardinality(all_extracted_fields))
        u9 == set_in(u8, "processing_metadata", "processing_time_ms",
                     processing_time)
    IN  [universal_data |-> u9, extracted_fields |-> all_extracted_fields]

(* --------------- calls of the extraction functions -------------------- *)
MaxMatches == 2

AgeAlphabet == {"0", "1", "2", "5", "x"}
AgeStrings == UNION {[1..n -> AgeAlphabet] : n \in 1..MaxDigits}

NameValues ==
    {<<"S", "a">>, <<"s", "a">>, <<"S", "a", "sama">>, <<"a">>, <<"a", "b">>}
AgeValues == {<<"4", "5">>, <<"0", "4", "5">>, <<"1", "5", "0">>, <<"7">>}
PriceValues == {<<"9", "8">>, <<"-", "-">>}

MatchPool(field_name) ==
    IF field_name = "name"
    THEN {Match(r, p, v, c) : r \in 1..3, p \in {0, 7}, v \in NameValues,
                              c \in {{}, {"name"}, {"name", "shimei", "okyakusama"}}}
    ELSE IF field_name = "age"
    THEN {Match(r, p, v, c) : r \in 1..2, p \in {0, 7}, v \in AgeValues,
                              c \in {{}, {"name"}}}
    ELSE IF field_name = "price"
    THEN {Match(r, p, v, {}) : r \in 1..2, p \in {0, 7}, v \in PriceValues}
    ELSE {Match(1, 0, <<"S", "a">>, {})}

\* the subsets of pool with at most n elements
RECURSIVE SetsUpTo(_, _)
SetsUpTo(pool, n) ==
    IF n = 0 THEN {{}}
    ELSE LET smaller == SetsUpTo(pool, n - 1)
         IN  smaller \cup {s \cup {x} : s \in smaller, x \in pool}

\* a rule matches at most once at a position
MatchSets(field_name) ==
    {ms \in SetsUpTo(MatchPool(field_name), MaxMatches) :
        \A x, y \in ms : x.rule = y.rule /\ x.position = y.position => x = y}

NoMatches == [i \in {field_names[j] : j \in DOMAIN field_names} |-> {}]

MatchOptions ==
    [name |-> {{}, {Match(1, 0, <<"S", "a">>, {"name", "shimei"})},
                   {Match(2, 3, <<"s", "a">>, {})}},
     age |-> {{}, {Match(2, 5, <<"4", "5">>, {})},
                  {Match(1, 5, <<"1", "5", "0">>, {})},
                  {Match(1, 5, <<"1", "5", "0">>, {}), Match(2, 9, <<"0", "7">>, {})}},
     price |-> {{}, {Match(1, 8, <<"9", "8">>, {})}},
     company_name |-> {{}, {Match(2, 9, <<"a", "b">>, {})}}]

EmailSamples ==
    {[id |-> m, sender |-> <<"s">>, formatted_date |-> <<"d">>,
      subject |-> <<"t">>,
      matches |-> [f \in DOMAIN NoMatches |->
                      IF f = "name" THEN n ELSE IF f = "age" THEN a
                      ELSE IF f = "price" THEN p
                      ELSE IF f = "company_name" THEN c ELSE {}]] :
        m \in Ids, n \in MatchOptions.name, a \in MatchOptions.age,
        p \in MatchOptions.price, c \in MatchOptions.company_name}

\* dicts handed to map_fields_to_universal_json: one entry per name
MappedSamples ==
    {d \in SUBSET {ExtractedField("name", <<"S", "a">>, 90, 1, 0),
                   ExtractedField("age", <<"4", "5">>, 95, 1, 0),
                   ExtractedField("age", <<"4", "5", "sai2">>, 95, 1, 0),
                   ExtractedField("price", <<" ">>, 90, 1, 0),
                   ExtractedField("url", <<"u">>, 95, 1, 0),
                   ExtractedField("inquiry_text", <<"q">>, 90, 1, 0),
                   ExtractedField("nickname", <<"n">>, 90, 1, 0),
                   ExtractedField("postal_code", <<"1", "-", "2">>, 95, 1, 0)} :
        \A x, y \in d : x.name = y.name => x = y}

InitExtract ==
    /\ webhook_url = TRUE
    /\ max_emails = 1
    /\ archive_processed = FALSE
    /\ min_confidence_threshold = 30
    /\ parallel_processing = FALSE
    /\ db_faults = FALSE
    /\ mail = [m \in Ids |-> Unread]
    /\ inbox = Ids
    /\ db = EmptyDb
    /\ InitRunners
    /\ InitHistory
    /\ InitService
    /\ InitLock
    /\ InitControl
    /\ calls = 0
    /\ call = NoCall

\* FieldValidator.validate_age(value)
ValidateAgeCall ==
    /\ calls = 0
    /\ \E value \in AgeStrings :
         call' = [op |-> "validate_age", value |-> value,
                  ret |-> validate_age(value)]
    /\ calls' = 1
    /\ UNCHANGED <<config_vars, control_vars, lock_vars, service_vars, reported, mail, inbox, db, runner_vars, history_vars>>

\* field_extractor.extract_field(full_text, field_name), and the choice
\* extract_universal_json_data makes among the candidates it returns
ExtractFieldCall ==
    /\ calls = 0
    /\ \E field_name \in {"name", "age", "price", "nickname"} :
         \E ms \in MatchSets(field_name) :
            LET extracted_fields == extract_field(ms, field_name)
            IN  call' = [op |-> "extract_field", field_name |-> field_name,
                         matches |-> ms, ret |-> extracted_fields,
                         selected |-> IF extracted_fields # <<>>
                                      THEN {best_field(extracted_fields)}
                                      ELSE {}]
    /\ calls' = 1
    /\ UNCHANGED <<config_vars, control_vars, lock_vars, service_vars, reported, mail, inbox, db, runner_vars, history_vars>>

\* map_fields_to_universal_json(get_universal_template(), extracted_fields)
MapFieldsCall ==
    /\ calls = 0
    /\ \E extracted_fields \in MappedSamples :
         call' = [op |-> "map_fields_to_universal_json",
                  extracted_fields |-> extracted_fields,
                  universal_data |->
                      map_fields_to_universal_json(get_universal_template,
                                                   extracted_fields)]
    /\ calls' = 1
    /\ UNCHANGED <<config_vars, control_vars, lock_vars, service_vars, reported, mail, inbox, db, runner_vars, history_vars>>

\* data_extractor.extract_universal_json_data(email_data), and the ledger
\* row mark_email_processed builds from the fields it returns
ExtractRecordCall ==
    /\ calls = 0
    /\ \E email_data \in EmailSamples, processing_time \in {0, 12} :
         LET avg_confidence ==
                 MeanConfidence(all_extracted_fields_of(email_data.matches))
         IN  \E rounded \in round3(avg_confidence) :
                LET data == universal_json_data(email_data, processing_time, rounded)
                    row == ledger_row([ProcessingResult(email_data.id) EXCEPT
                               !.extracted_fields = data.extracted_fields])
                IN  call' = [op |-> "extract_universal_json_data",
                             email_data |-> email_data,
                             universal_data |-> data.universal_data,
                             extracted_fields |-> data.extracted_fields,
                             ledger_confidence |-> row.extraction_confidence]
    /\ calls' = 1
    /\ UNCHANGED <<config_vars, control_vars, lock_vars, service_vars, reported, mail, inbox, db, runner_vars, history_vars>>

\* processor.check_data_relevance(email_data)
RelevanceCall ==
    /\ calls = 0
    /\ \E m \in Ids, c \in AllContents :
         call' = [op |-> "check_data_relevance",
                  email_data |-> email_data_of(m, c),
                  ret |-> check_data_relevance(email_data_of(m, c))]
    /\ calls' = 1
    /\ UNCHANGED <<config_vars, control_vars, lock_vars, service_vars, reported, mail, inbox, db, runner_vars, history_vars>>

NextExtract ==
    \/ ValidateAgeCall
    \/ ExtractFieldCall
    \/ MapFieldsCall
    \/ ExtractRecordCall
    \/ RelevanceCall

SpecExtract == InitExtract /\ [][NextExtract]_vars

(* ============================== properties =========================== *)
\* C1: once a run has POSTed a message's record and received a success
\* response, no later run fetches that message or issues another webhook
\* POST for it.
C1_NoRedeliveryInLaterRun ==
    [][\A r \in Runners, m \in Ids :
          (acked[m] # 0 /\ run'[r] > acked[m])
              => /\ (pc[r] = "process" /\ pc'[r] = "mark" /\ result'[r].email_id = m)
                        => posts'[m] = posts[m]
                 /\ m \notin work'[r].fetched
                 /\ m \notin work'[r].posted]_vars

\* a later run meets a delivered message in the listing and skips it
C1_Witness ==
    \E m \in Ids : /\ acked[m] # 0
                   /\ run["loop"] > acked[m]
                   /\ m \in work["loop"].skipped

\* C2: an id found processed when the candidate list is scanned gets no
\* fetch, no relevance scoring, no field extraction, no webhook send and no
\* ledger write in that batch.
C2_SkippedIdsUntouched ==
    \A r \in Runners : \A m \in work[r].skipped :
        m \notin (work[r].fetched \cup work[r].scored \cup work[r].extracted
                    \cup work[r].posted \cup work[r].written)

\* a batch that skipped one id and processed another has finished its loop
C2_Witness ==
    \E r \in Runners : /\ pc[r] = "stats"
                       /\ work[r].skipped # {}
                       /\ work[r].written # {}

\* C3: after the per-message loop every message handed to
\* process_single_email has a ledger entry, whatever its outcome, and no id
\* that was never handed to the pipeline has one.
C3_HandedIffRecorded ==
    /\ \A r \in Runners :
          pc[r] \in {"stats", "idle"}
              => \A i \in 1..Len(emails[r]) :
                     is_email_processed(db, emails[r][i].id, TRUE)
    /\ \A i \in 1..Len(db.processed_emails) :
          db.processed_emails[i].email_id \in handed

\* the loop has ended for a batch holding an exception outcome and a
\* failed or skipped delivery next to it
C3_Witness ==
    \E r \in Runners :
        /\ pc[r] = "stats"
        /\ \E i \in 1..Len(results[r]) : ~results[r][i].success
        /\ \E i \in 1..Len(results[r]) :
              results[r][i].success /\ ~results[r][i].webhook_sent

\* C9: a message whose relevance confidence is below the threshold gets no
\* field extraction, no webhook attempt and no archive call, and its
\* recorded outcome has no fields, field count 0 and webhook_sent false.
LowRelevance(m) ==
    /\ mail[m] # Unread
    /\ ~mail[m].malformed
    /\ relevance_confidence(mail[m].keywords) < relevance_threshold

C9_LowRelevanceNotProcessed ==
    \A m \in Ids :
        LowRelevance(m)
            => /\ posts[m] = 0
               /\ archive_calls[m] = 0
               /\ \A r \in Runners : m \notin work[r].extracted
               /\ last_marked[m].extracted_fields = {}
               /\ \A i \in rows_of(db, m) :
                     /\ db.processed_emails[i].field_count = 0
                     /\ ~db.processed_emails[i].webhook_sent
               /\ \A i \in 1..Len(db.extracted_fields) :
                     db.extracted_fields[i].email_id # m

\* the outcome of a low-relevance message that carries a key field is stored
C9_Witness ==
    \E m \in Ids : /\ LowRelevance(m)
                   /\ mail[m].fields # {}
                   /\ rows_of(db, m) # {}

\* C4: the ledger holds at most one entry per message id, and that entry's
\* webhook_sent, confidence, field count, content hash and error message are
\* those of the most recent mark_email_processed call for the id.
C4_LastWriteWins ==
    \A m \in Ids :
        /\ Cardinality(rows_of(db, m)) <= 1
        /\ last_marked[m] # NoResult
              => \E i \in rows_of(db, m) :
                    LET row == db.processed_emails[i]
                        latest == last_marked[m]
                    IN  /\ row.webhook_sent = latest.webhook_sent
                        /\ row.extraction_confidence
                              = MeanConfidence(latest.extracted_fields)
                        /\ row.field_count = Cardinality(latest.extracted_fields)
                        /\ row.content_hash = content_hash(latest.universal_data)
                        /\ row.error_message = error_or_none(latest.error_message)
        /\ last_marked[m] = NoResult => rows_of(db, m) = {}

\* an id whose stored outcome said "not sent" is marked again with a
\* delivered outcome
C4_Witness ==
    /\ call.op = "mark_email_processed"
    /\ call.result.webhook_sent
    /\ \E i \in rows_of(call.before, call.result.email_id) :
          ~call.before.processed_emails[i].webhook_sent

\* C5: recording the same outcome for the same id a second time leaves the
\* stored state (entry and per-field rows, hence field_extraction_stats)
\* as it was after the first recording.
C5_ReplayIsIdempotent ==
    (call.op = "mark_email_processed" /\ call.replay)
        => /\ db = call.before
           /\ get_stats(db) = get_stats(call.before)

\* C6: a POST that fails with a timeout or a connection failure is issued
\* again, up to max_tries POSTs in all, and false is returned only when the
\* attempts are used up or an answer arrived.
RECURSIVE AttemptsDue(_, _)
AttemptsDue(outcomes, k) ==
    IF k >= max_tries \/ ~IsException(outcomes[k]) THEN k
    ELSE AttemptsDue(outcomes, k + 1)

C6_TransientFailuresRetried ==
    (call.op = "send_to_webhook" /\ webhook_url)
        => call.posts = AttemptsDue(call.outcomes, 1)

\* C7: with an endpoint configured, send_to_webhook returns true exactly
\* when the response status is in 200..299.
C7_TrueExactlyFor2xx ==
    (call.op = "send_to_webhook" /\ webhook_url
       /\ ~IsException(call.outcomes[1]))
        => (call.ret <=> (call.outcomes[1].code >= 200
                            /\ call.outcomes[1].code <= 299))

\* the "meaningful enough" condition on the fields of the message of the
\* latest process_single_email call
MeaningfulCall ==
    LET fields == call.email_data.fields
    IN  \/ /\ fields # {}
           /\ SumConfidences(fields)
                 >= min_confidence_threshold * Cardinality(fields)
           /\ Cardinality(fields) >= 2
        \/ \E f \in fields : f.name \in {"name", "email", "phone", "inquiry_text"}

\* C8 as stated: without an endpoint, send_to_webhook issues no request and
\* returns true.
C8_SendReturnsTrueWithoutEndpoint ==
    (call.op = "send_to_webhook" /\ ~webhook_url)
        => (call.posts = 0 /\ call.ret)

\* C8 as amended: without an endpoint no HTTP request is issued;
\* send_to_webhook itself returns false, and it is process_single_email
\* that records webhook_sent = true for a relevant, meaningful message.
C8_SuccessWithoutSendInPipeline ==
    ~webhook_url
        => /\ call.op = "send_to_webhook" => (call.posts = 0 /\ ~call.ret)
           /\ call.op = "process_single_email"
                 => /\ call.pass.posts = 0
                    /\ (/\ ~call.email_data.malformed
                        /\ relevance_confidence(call.email_data.keywords)
                              >= relevance_threshold
                        /\ MeaningfulCall)
                          => (call.pass.result.webhook_sent
                                /\ call.pass.result.success)

\* a message with a key field passes through a processor without endpoint
C8_Witness ==
    /\ ~webhook_url
    /\ call.op = "process_single_email"
    /\ Names(call.email_data.fields) \cap key_fields # {}
    /\ call.pass.result.webhook_sent
    /\ call.pass.posts = 0

\* C10: for a relevant message with an endpoint configured, a delivery is
\* attempted iff (mean confidence >= min_confidence_threshold and at least
\* 2 fields) or a key field was extracted; otherwise the outcome keeps the
\* extracted fields and has webhook_sent = false.
C10_RelevantCall ==
    /\ call.op = "process_single_email"
    /\ webhook_url
    /\ ~call.email_data.malformed
    /\ relevance_confidence(call.email_data.keywords) >= relevance_threshold

C10_DeliveryIffMeaningful ==
    C10_RelevantCall
        => /\ (call.pass.posts > 0) <=> MeaningfulCall
           /\ ~MeaningfulCall
                 => /\ call.pass.result.extracted_fields = call.email_data.fields
                    /\ ~call.pass.result.webhook_sent

\* two fields without a key field, mean below the threshold: kept, not sent
C10_Witness ==
    /\ C10_RelevantCall
    /\ Cardinality(call.email_data.fields) >= 2
    /\ ~MeaningfulCall
    /\ call.pass.result.extracted_fields = call.email_data.fields
    /\ call.pass.posts = 0

\* C11: the Gmail archive call is issued only after the delivery of the
\* same pass returned success (with an endpoint: the last POST of the pass
\* was answered with a success status); a message that was not relevant,
\* not meaningful, whose delivery failed or whose pass raised is not
\* archived, and archived = true implies webhook_sent = true.
C11_ArchiveOnlyAfterDelivery ==
    call.op = "process_single_email"
        => LET p == call.pass
               e == call.email_data
           IN  /\ p.archive_called
                     => /\ p.result.webhook_sent
                        /\ webhook_url
                              => /\ p.posts >= 1
                                 /\ ~IsException(call.outcomes[p.posts])
                                 /\ call.outcomes[p.posts].code
                                       \in success_statuses
               /\ (\/ e.malformed
                   \/ relevance_confidence(e.keywords) < relevance_threshold
                   \/ ~MeaningfulCall
                   \/ ~p.result.webhook_sent
                   \/ ~p.result.success)
                     => (~p.archive_called /\ ~p.archive_ok
                           /\ ~p.result.archived)
               /\ p.result.archived => p.result.webhook_sent

\* a pass with archiving on whose delivery was refused: no archive call
C11_Witness ==
    /\ call.op = "process_single_email"
    /\ webhook_url /\ archive_processed
    /\ call.pass.posts >= 1
    /\ ~call.pass.result.webhook_sent
    /\ ~call.pass.archive_called

\* C12: an unexpected error while processing message k stays inside
\* process_single_email: message k gets an error outcome (success false,
\* error message set, webhook_sent false) that is written to the ledger,
\* and every other message of the batch is processed and recorded as its
\* own pass gives it.
OutcomesOf(email_data) ==
    {process_single_email(email_data, webhook_url, archive_processed,
                          min_confidence_threshold, o, k).result :
        o \in [1..max_tries -> PostOutcomes], k \in BOOLEAN}

C12_ErrorStaysInItsMessage ==
    \A r \in Runners :
        pc[r] = "stats"
            => /\ Len(results[r]) = Len(emails[r])
               /\ \A i \in 1..Len(emails[r]) :
                     LET e == emails[r][i]
                         res == results[r][i]
                     IN  /\ res.email_id = e.id
                         /\ e.malformed
                               => /\ ~res.success
                                  /\ res.error_message # ""
                                  /\ ~res.webhook_sent
                         /\ ~e.malformed
                               => (res \in OutcomesOf(e) /\ res.success)
                         /\ \E j \in rows_of(db, e.id) :
                               db.processed_emails[j] = ledger_row(res)

\* a batch whose first message raised and whose second was delivered
C12_Witness ==
    \E r \in Runners :
        /\ pc[r] = "stats"
        /\ Len(emails[r]) = 2
        /\ emails[r][1].malformed
        /\ results[r][2].webhook_sent

\* C13: for a batch in which N >= 1 messages went through the pipeline,
\* the summary process_emails returns has processed = N,
\* successful_webhooks = the number of outcomes with webhook_sent,
\* failed_webhooks = N minus that number, and archived = the number of
\* archived outcomes.
C13_SummaryCountsTheBatch ==
    \A r \in Runners :
        (pc[r] = "idle" /\ summary[r].returned /\ Len(results[r]) >= 1)
            => /\ summary[r].processed = Len(results[r])
               /\ summary[r].successful_webhooks = count_webhook_sent(results[r])
               /\ summary[r].failed_webhooks
                     = Len(results[r]) - count_webhook_sent(results[r])
               /\ summary[r].archived = count_archived(results[r])

\* C14: the end of a batch that processed N messages with S successful and
\* F failed deliveries raises today's processed, webhook-success and
\* webhook-fail counters, as get_stats reports them, by N, S and F.
C14_DailyStatsAdditive ==
    [][\A r \in Runners :
          (pc[r] = "stats" /\ pc'[r] = "idle")
              => LET N == Len(results[r])
                     S == count_webhook_sent(results[r])
                 IN  /\ get_stats(db').today_processed
                           = get_stats(db).today_processed + N
                     /\ get_stats(db').today_successful
                           = get_stats(db).today_successful + S
                     /\ get_stats(db').today_failed
                           = get_stats(db).today_failed + (N - S)]_vars

\* C15: after clear_processed_data it has reported success and the ledger
\* holds no entries: is_email_processed is false for every id and get_stats
\* reports total_processed = 0.
C15_ClearEmptiesTheLedger ==
    call.op = "clear_processed_data"
        => /\ call.ret
           /\ \A m \in Ids : ~is_email_processed(db, m, TRUE)
           /\ get_stats(db).total_processed = 0

\* C16: when the fetch (or the decoding) of a candidate id fails, the id is
\* left out of the batch and gets no ledger entry, and every other
\* unprocessed candidate of the listing is still fetched and processed,
\* until max_emails candidates have been taken.
BatchIds(r) == {emails[r][i].id : i \in 1..Len(emails[r])}
Listed(r) == {messages[r][i] : i \in 1..Len(messages[r])}
FetchEnded(r) ==
    \/ pc[r] \in {"process", "mark", "stats"}
    \/ pc[r] = "idle" /\ summary[r].returned
BatchEnded(r) ==
    \/ pc[r] = "stats"
    \/ pc[r] = "idle" /\ summary[r].returned

C16_FetchFailureSkipsOnlyThatMessage ==
    \A r \in Runners :
        /\ FetchEnded(r)
              => /\ \A m \in work[r].fetch_failed :
                       /\ m \notin BatchIds(r)
                       /\ m \notin (work[r].scored \cup work[r].posted
                                       \cup work[r].written)
                       /\ rows_of(db, m) = {}
                 /\ \A m \in Listed(r) :
                       (m \notin work[r].skipped /\ m \notin work[r].fetched)
                           => Cardinality(work[r].fetched) >= max_emails
                 /\ \A m \in work[r].fetched \ work[r].fetch_failed :
                       m \in BatchIds(r)
        /\ BatchEnded(r)
              => \A m \in BatchIds(r) :
                    m \in work[r].written /\ rows_of(db, m) # {}

\* a batch is over in which one fetch failed and another candidate of the
\* same listing was fetched, processed and recorded
C16_Witness ==
    \E r \in Runners :
        /\ pc[r] = "stats"
        /\ work[r].fetch_failed # {}
        /\ \E m \in BatchIds(r) : rows_of(db, m) # {}

\* C17: a ledger write that failed inside a batch shows in the summary
\* process_emails returns: the summary of a batch with a failed write is
\* never the summary of a batch whose writes all succeeded.
C17_WriteFailureSurfaced ==
    \A x \in reported : \A y \in reported :
        (x.write_failed /\ ~y.write_failed) => x.summary # y.summary

\* C18: once stop has been requested while a batch is being processed, the
\* loop starts no message of that batch other than the one in the pipeline
\* when the request came.
C18_StopBetweenMessages ==
    [][(/\ should_stop
        /\ processing_thread = "alive"
        /\ pc["loop"] = "process" /\ pc'["loop"] = "mark")
          => result'["loop"].email_id = in_flight_at_stop]_vars

\* C19: the loop never ends between a message's delivery and its ledger
\* write: a thread that is no longer running has no pass waiting for its
\* write.
C19_InFlightCompletes ==
    processing_thread \in {"ended", "killed"} => pc["loop"] # "mark"

\* C20: no two threads are inside is_email_processed, mark_email_processed
\* or get_stats of one EmailDatabase at the same time, so that while a
\* write is between its first statement and its commit no other thread is
\* inside a ledger method, and what a get_stats has read so far still
\* holds of the database.
InsideLedger(t) == ledger_pc[t] \notin {"out", "acquire"}

C20_LedgerMutualExclusion ==
    /\ \A t \in Runners : \A u \in Runners :
          (InsideLedger(t) /\ InsideLedger(u)) => t = u
    /\ \A t \in Runners :
          ledger_pc[t] \in {"fields", "commit"}
              => \A u \in Runners \ {t} : ~InsideLedger(u) /\ ~txn[u].open
    /\ \A t \in Runners :
          ledger_pc[t] = "field_stats"
              => /\ ledger_op[t].total_processed = get_stats(db).total_processed
                 /\ ledger_op[t].successful_webhooks
                       = get_stats(db).successful_webhooks

\* one thread is between the upsert and the commit of its write while the
\* other has called a method and waits for the lock
C20_Witness ==
    \E t \in Runners : \E u \in Runners \ {t} :
        /\ ledger_pc[t] = "commit"
        /\ ledger_pc[u] = "acquire"
        /\ lock_owner = t

\* C21 as stated: the mean confidence on the record, and the one stored in
\* the ledger row, is exactly the arithmetic mean of the selected fields'
\* confidences, lies in [0,1] and is 0 when no field was extracted, and
\* every field confidence lies between its rule's base and min(0.99,
\* base + 0.2).
C21_FieldWithinBonus(f) ==
    LET base == get_extraction_patterns[f.name][f.source_pattern]
    IN  base <= f.confidence /\ f.confidence <= Min(99, base + 20)

C21_FieldsWithinBonus ==
    /\ call.op = "extract_field" =>
          \A i \in DOMAIN call.ret : C21_FieldWithinBonus(call.ret[i])
    /\ call.op = "extract_universal_json_data" =>
          \A f \in call.extracted_fields : C21_FieldWithinBonus(f)

C21_RecordMeanIsExact ==
    /\ C21_FieldsWithinBonus
    /\ call.op = "extract_universal_json_data" =>
          LET stamped == call.universal_data.processing_metadata.extraction_confidence
              total == SumConfidences(call.extracted_fields)
              count == Cardinality(call.extracted_fields)
          IN  /\ 0 <= stamped /\ stamped <= 1000
              /\ count = 0 => stamped = 0 /\ call.ledger_confidence.num = 0
              /\ count > 0 => /\ stamped * count = 10 * total
                              /\ call.ledger_confidence.num * count
                                    = total * call.ledger_confidence.den

\* C21 (amended): the mean confidence stamped on the record is the
\* arithmetic mean of the selected fields' confidences rounded to three
\* decimals (at most 0.0005 away from it) and lies in [0,1]; the ledger row
\* stores the unrounded mean; both are 0 when no field was extracted; every
\* field confidence lies between its rule's base and min(0.99, base + 0.2).
C21_RecordMeanIsRounded ==
    /\ C21_FieldsWithinBonus
    /\ call.op = "extract_universal_json_data" =>
          LET stamped == call.universal_data.processing_metadata.extraction_confidence
              total == SumConfidences(call.extracted_fields)
              count == Cardinality(call.extracted_fields)
          IN  /\ 0 <= stamped /\ stamped <= 1000
              /\ count = 0 => stamped = 0 /\ call.ledger_confidence.num = 0
              /\ count > 0 => /\ 2 * Abs(stamped * count - 10 * total) <= count
                              /\ call.ledger_confidence.num * count
                                    = total * call.ledger_confidence.den

\* three fields, one of them raised by its context, with a mean that is
\* not a whole number of thousandths
C21_Witness ==
    /\ call.op = "extract_universal_json_data"
    /\ Cardinality(call.extracted_fields) = 3
    /\ \E f \in call.extracted_fields :
          f.confidence > get_extraction_patterns[f.name][f.source_pattern]
    /\ call.universal_data.processing_metadata.extraction_confidence * 3
          # 10 * SumConfidences(call.extracted_fields)

\* C22: check_data_relevance returns a confidence within [0,1] for every
\* message, also for one with negative keywords and no positive ones.
C22_RelevanceConfidenceInRange ==
    call.op = "check_data_relevance" =>
        0 <= call.ret.confidence /\ call.ret.confidence <= 100

\* C23: the value selected for a field is a validated candidate with the
\* highest confidence among all rule matches and, among those tied on it,
\* the earliest match position; the candidates that survive deduplication
\* have pairwise different normalized values; when no candidate passes
\* validation the field is absent.
C23_Validated(field_name, m) ==
    /\ strip(m.value) # <<>>
    /\ validate_field_value(field_name, strip(m.value)).is_valid
    /\ validate_field_value(field_name, strip(m.value)).value # <<>>

C23_ConfidenceOf(field_name, m) ==
    LET hits == IF field_name \in DOMAIN context_keywords
                THEN Cardinality(context_keywords[field_name] \cap m.context)
                ELSE 0
        raised == get_extraction_patterns[field_name][m.rule]
                     + (IF hits >= 2 THEN 20 ELSE 10 * hits)
    IN  IF raised > 99 THEN 99 ELSE raised

C23_BestCandidateSelected ==
    call.op = "extract_field" =>
        LET valid == IF call.field_name \in DOMAIN get_extraction_patterns
                     THEN {m \in call.matches : C23_Validated(call.field_name, m)}
                     ELSE {}
        IN  /\ valid = {} <=> call.selected = {}
            /\ \A b \in call.selected :
                  /\ \E m \in valid :
                        /\ m.rule = b.source_pattern
                        /\ m.position = b.position
                        /\ C23_ConfidenceOf(call.field_name, m) = b.confidence
                        /\ validate_field_value(call.field_name, strip(m.value)).value
                              = b.value
                  /\ \A m \in valid :
                        /\ C23_ConfidenceOf(call.field_name, m) <= b.confidence
                        /\ C23_ConfidenceOf(call.field_name, m) = b.confidence
                              => b.position <= m.position
            /\ \A i, j \in DOMAIN call.ret :
                  i # j => strip(lower(call.ret[i].value))
                             # strip(lower(call.ret[j].value))

\* two valid candidates tied on the confidence, the one of the later rule
\* at the earlier position, and it is the one selected
C23_Witness ==
    /\ call.op = "extract_field"
    /\ \E x, y \in call.matches :
          /\ x.rule < y.rule /\ y.position < x.position
          /\ C23_Validated(call.field_name, x)
          /\ C23_Validated(call.field_name, y)
          /\ C23_ConfidenceOf(call.field_name, x) = C23_ConfidenceOf(call.field_name, y)
          /\ \E b \in call.selected :
                b.source_pattern = y.rule /\ b.position = y.position
          /\ Len(call.ret) = 2

\* C24: a canonical record has exactly the keys of the universal template
\* at every nesting level; mapping extracted fields overwrites leaves the
\* template has and adds or removes no key; a leaf no field populates keeps
\* the empty string; a field name without a mapping changes nothing.
C24_Dicts ==
    {"processing_metadata", "company_info", "staff_info", "event_info",
     "document_request_info", "inquiry_info", "survey_info", "property_info"}

C24_Lists == {"reservation_info", "customer_info"}

C24_KeySet(u) ==
    [top |-> DOMAIN u,
     dicts |-> [s \in C24_Dicts |-> DOMAIN u[s]],
     lists |-> [s \in C24_Lists |-> [i \in DOMAIN u[s] |-> DOMAIN u[s][i]]],
     housing |-> [s \in DOMAIN u["housing_preferences"] |->
                    DOMAIN u["housing_preferences"][s]]]

\* the text leaves a field is mapped to, as <<section, key>>
C24_Targets(field_name) ==
    IF field_name = "name" THEN {<<"customer_info", "name">>}
    ELSE IF field_name = "furigana" THEN {<<"customer_info", "furigana">>}
    ELSE IF field_name = "email" THEN {<<"customer_info", "email">>}
    ELSE IF field_name = "phone" THEN {<<"customer_info", "phone_number">>}
    ELSE IF field_name = "age" THEN {<<"customer_info", "age">>}
    ELSE IF field_name = "postal_code" THEN {<<"customer_info", "postal_code">>}
    ELSE IF field_name = "address" THEN {<<"customer_info", "address">>}
    ELSE IF field_name = "inquiry_text"
    THEN {<<"inquiry_info", "inquiry_text">>, <<"customer_info", "comments">>}
    ELSE IF field_name = "company_name"
    THEN {<<"company_info", "company_name">>, <<"property_info", "company_name">>}
    ELSE IF field_name = "property_name"
    THEN {<<"property_info", "property_name">>,
          <<"reservation_info", "property_name">>}
    ELSE IF field_name = "price"
    THEN {<<"property_info", "price">>, <<"reservation_info", "price">>}
    ELSE IF field_name = "url"
    THEN {<<"company_info", "url">>, <<"event_info", "event_url">>,
          <<"property_info", "property_url">>}
    ELSE {}

C24_Populated(extracted_fields) ==
    UNION {C24_Targets(f.name) :
              f \in {g \in extracted_fields : strip(g.value) # <<>>}}

C24_Leaf(u, s, k) == IF s \in C24_Lists THEN u[s][1][k] ELSE u[s][k]

C24_LeafKeys(u, s) == IF s \in C24_Lists THEN DOMAIN u[s][1] ELSE DOMAIN u[s]

\* the leaves outside the given ones are those of the template
C24_OthersUntouched(u, written) ==
    /\ \A s \in (C24_Dicts \cup C24_Lists) \ {"processing_metadata"} :
          \A k \in C24_LeafKeys(get_universal_template, s) :
             <<s, k>> \notin written => C24_Leaf(u, s, k) = <<>>
    /\ u["housing_preferences"] = get_universal_template["housing_preferences"]
    /\ u["processing_metadata"]["extraction_method"] = "smart_pattern_matching"

C25_Zeros(k) == [i \in 1..k |-> "0"]

\* the first maximal run of digits of value is n, possibly with leading zeros
C25_FirstRunIs(value, n) ==
    \E i \in DOMAIN value : \E j \in i..Len(value) :
       /\ \A h \in 1..(i - 1) : ~IsDigit(value[h])
       /\ \A h \in i..j : IsDigit(value[h])
       /\ j = Len(value) \/ ~IsDigit(value[j + 1])
       /\ \E k \in 0..(j - i) : SubSeq(value, i, j) = C25_Zeros(k) \o str(n)

C25_AgeAcceptedAndEmitted ==
    /\ call.op = "validate_age" =>
          /\ call.ret.is_valid <=> \E n \in 0..120 : C25_FirstRunIs(call.value, n)
          /\ call.ret.is_valid => C25_FirstRunIs(call.value, int(call.ret.value))
          /\ call.ret.is_valid => call.ret.value = str(int(call.ret.value))
    /\ call.op = "extract_universal_json_data" =>
          LET accepted == {n \in 0..120 :
                              \E m \in call.email_data.matches["age"] :
                                 C25_FirstRunIs(strip(m.value), n)}
              emitted == call.universal_data["customer_info"][1]["age"]
          IN  /\ accepted = {} =>
                    "age" \notin Names(call.extracted_fields) /\ emitted = <<>>
              /\ accepted # {} =>
                    /\ \E n \in accepted : emitted = str(n) \o <<"sai">>
                    /\ Cardinality({i \in DOMAIN emitted :
                                       emitted[i] \in {"sai", "sai2"}}) = 1

\* a candidate 150 is rejected, the candidate 07 beside it is accepted and
\* emitted with one suffix
C25_Witness ==
    /\ call.op = "extract_universal_json_data"
    /\ \E m \in call.email_data.matches["age"] : m.value = <<"1", "5", "0">>
    /\ call.universal_data["customer_info"][1]["age"] = <<"7", "sai">>

\* C26: within one service process no message gets a webhook POST sequence
\* from both the processing loop and a one-time run that overlaps it.
C26_OnePostSequencePerMessage ==
    \A m \in Ids : ~(m \in work["loop"].posted /\ m \in work["request"].posted)

\* C27: at most one processing-loop thread executes batches: a batch is
\* begun only by the thread of the latest start, so a loop that an earlier
\* stop left behind, or the loop of a concurrent second start, begins none.
C27_OnlyTheCurrentLoopBeginsBatches ==
    [][\A t \in Threads :
          (loop_pc[t] # "batch" /\ loop_pc'[t] = "batch") => t = processing_thread]_vars

\* C28: in every reachable state is_paused implies is_running, and so a
\* start request that arrives while the service is stopped is not routed to
\* resume_processing and rejected.
C28_PausedImpliesRunning ==
    /\ is_paused => is_running
    /\ \A h \in Handlers :
          ~(/\ request[h].op = "start_processor"
            /\ request[h].stopped
            /\ request[h].routed = "resume_processing"
            /\ request[h].pc = "done"
            /\ ~request[h].ret)

\* C29: while the service is paused the loop invokes process_emails for no
\* new batch and its thread stays as it is; when the pause is lifted with
\* the service running, the same thread is alive and no thread is created,
\* and the loop, once idle and not paused, begins a new batch unless the
\* service is paused or stopped first.
C29_LoopReady ==
    /\ processing_thread = "alive"
    /\ is_running /\ ~should_stop /\ ~is_paused
    /\ pc["loop"] = "idle"

C29_PausedStep ==
    /\ (is_paused /\ is_paused') =>
          (run'["loop"] = run["loop"] /\ processing_thread' = processing_thread)
    /\ is_paused => processing_thread = "alive"
    /\ (is_paused /\ ~is_paused' /\ is_running') =>
          (processing_thread = "alive" /\ processing_thread' = "alive")

C30_ArchivedOnlyWhenArchived ==
    call.op = "process_single_email" =>
        /\ call.pass.result.archived =>
              (call.pass.archive_called /\ call.pass.archive_ok)
        /\ ~archive_processed => ~call.pass.result.archived

====
